---- MODULE Spec2Model ----
(***************************************************************************)
(* ModernCart: the storage layer (DatabaseStorage over PostgreSQL/Drizzle) *)
(* and the client cart context, as a state machine.                        *)
(*                                                                         *)
(* Tables are sets of rows.  Every SQL statement is one atomic step; a     *)
(* storage method that awaits two statements is two steps, and other       *)
(* requests may run between them.  Requests are kept in arrival order in   *)
(* req; each entry keeps its arguments, its position (pc) and its result.  *)
(***************************************************************************)
EXTENDS Integers, Sequences, FiniteSets, TLC

\* Number of requests that arrive in one behaviour.
MaxReqs == 3

VARIABLES
    products,       \* table products: set of rows
    nextProductId,  \* serial of products.id
    cartItems,      \* table cart_items: set of rows
    nextCartId,     \* serial of cart_items.id
    clock,          \* database clock, the source of createdAt defaults
    ver,            \* number of write statements executed so far
    req,            \* the requests, in arrival order
    cache,          \* CartProvider: data of the query ["/api/cart"]
    clearSnap,      \* CartProvider.clearCart: ids of the cartItems it iterates over
    clearTodo,      \* CartProvider.clearCart: ids the loop has not reached yet
    clientPc,       \* CartProvider.clearCart: "idle", "clearing" or "cleared"
    users,          \* table users: set of rows
    nextUserId,     \* serial of users.id
    categories,     \* table categories: set of rows
    nextCategoryId, \* serial of categories.id
    orders,         \* table orders: set of rows
    nextOrderId,    \* serial of orders.id
    orderItems,     \* table order_items: set of rows
    nextOrderItemId, \* serial of order_items.id
    auth,           \* useAuth(): the session's user and isLoading
    adminView,      \* what AdminPage has rendered
    productPage,    \* ProductPage: the product of its query and the selected quantity
    checkout,       \* CheckoutModal: isOpen, step and the state of createOrderMutation
    inflight        \* CartProvider: the cart mutations whose response has not arrived

vars == <<products, nextProductId, cartItems, nextCartId, clock, ver, req,
          cache, clearSnap, clearTodo, clientPc,
          users, nextUserId, categories, nextCategoryId,
          orders, nextOrderId, orderItems, nextOrderItemId,
          auth, adminView, productPage, checkout, inflight>>

\* Tables users and categories.
accounts == <<users, nextUserId, categories, nextCategoryId>>

\* Tables orders and order_items.
orderTables == <<orders, nextOrderId, orderItems, nextOrderItemId>>

\* State of the client.
browser == <<auth, adminView, productPage, checkout, inflight>>

client == <<cache, clearSnap, clearTodo, clientPc, browser>>

-----------------------------------------------------------------------------
\* Optional values (T | undefined, T | null): the empty set or a singleton.
Undefined == {}

Some(x) == {x}

Val(o) == CHOOSE x \in o : TRUE

\* JavaScript truthiness of an optional number: undefined, null and 0 are falsy.
Truthy(o) == o # {} /\ o # {0}

\* a || d for an optional number a.
OrElse(o, d) == IF Truthy(o) THEN Val(o) ELSE d

\* Sum of the quantity fields of a set of rows.
RECURSIVE SumQuantity(_)
SumQuantity(rows) ==
    IF rows = {} THEN 0
    ELSE LET x == CHOOSE y \in rows : TRUE IN x.quantity + SumQuantity(rows \ {x})

-----------------------------------------------------------------------------
\* Schema (shared/schema.ts).

\* cart_items.quantity default.
DefaultQuantity == 1

\* cart_items has no unique constraint over (userId, productId): an insert is
\* rejected by nothing but the primary key, which the serial never repeats.
CartInsertAllowed(table, row) == \A old \in table : old.id # row.id

\* A unique index on column f: no two rows of the table have the same value.
Unique(table, f) == \A a \in table : \A b \in table : a[f] = b[f] => a.id = b.id

\* users.username and users.email are unique.
UsersAllowed(table) == Unique(table, "username") /\ Unique(table, "email")

\* categories.slug is unique.
CategoriesAllowed(table) == Unique(table, "slug")

\* products.slug is unique.
ProductsAllowed(table) == Unique(table, "slug")

\* Nothing references products.id with an enforced foreign key: a product
\* that cart lines still name can be deleted.
ProductDeleteAllowed(id) == TRUE

-----------------------------------------------------------------------------
\* Request bookkeeping.

Pending(r) == r \in 1..Len(req) /\ req[r].pc = "pending"

Done(r) == r \in 1..Len(req) /\ req[r].pc = "done"

IsOp(r, op) == r \in 1..Len(req) /\ req[r].op = op

\* A request arrives: the route handler calls the storage method.
Arrive(call) ==
    /\ Len(req) < MaxReqs
    /\ req' = Append(req, call)
    /\ UNCHANGED <<products, nextProductId, cartItems, nextCartId, clock, ver,
                   client, accounts, orderTables>>

Failed(r) == r \in 1..Len(req) /\ req[r].pc = "failed"

\* The statement of request r was rejected by the database: the awaited
\* promise rejects and the method throws the error.
Fail(r, error) == req' = [req EXCEPT ![r] = [pc |-> "failed", error |-> error] @@ req[r]]

\* The statement of request r has run: r is done with result res.  at is the
\* number of writes that have been executed, this one included.
Finish(r, res, at) == req' = [req EXCEPT ![r].pc = "done", ![r].result = res, ![r].at = at]

-----------------------------------------------------------------------------
\* Cart (DatabaseStorage.getCartItems .. clearCart).

CartLines(table, userId, productId) ==
    {row \in table : row.userId = userId /\ row.productId = productId}

UserLines(table, userId) == {row \in table : row.userId = userId}

\* select ... from cart_items left join products on productId = products.id
\* where userId = ?, mapped to {...cart_items, product: products!}.  The
\* non-null assertion is erased at run time: an unmatched line has product null.
JoinProduct(row, prods) ==
    LET match == {p \in prods : p.id = row.productId} IN
    IF match = {} THEN {[item |-> row, product |-> {}]}
    ELSE {[item |-> row, product |-> {p}] : p \in match}

GetCartItemsResult(table, prods, userId) ==
    UNION {JoinProduct(row, prods) : row \in UserLines(table, userId)}

GetCartItemsCall(userId) ==
    [op |-> "getCartItems", pc |-> "pending", userId |-> userId, result |-> {}, at |-> 0]

GetCartItems(r) ==
    /\ Pending(r) /\ IsOp(r, "getCartItems")
    /\ Finish(r, GetCartItemsResult(cartItems, products, req[r].userId), ver)
    /\ UNCHANGED <<products, nextProductId, cartItems, nextCartId, clock, ver,
                   client, accounts, orderTables>>

AddToCartCall(userId, productId, quantity) ==
    [op |-> "addToCart", pc |-> "pending", userId |-> userId, productId |-> productId,
     quantity |-> quantity, existing |-> {}, result |-> {}, at |-> 0]

\* First statement of addToCart: const [existingItem] = await select ... .
\* Without ORDER BY the first row of several matches is any of them.
AddToCartSelect(r) ==
    /\ Pending(r) /\ IsOp(r, "addToCart")
    /\ LET match == CartLines(cartItems, req[r].userId, req[r].productId) IN
       \E ex \in (IF match = {} THEN {{}} ELSE {{row} : row \in match}) :
           req' = [req EXCEPT ![r].pc = "write", ![r].existing = ex]
    /\ UNCHANGED <<products, nextProductId, cartItems, nextCartId, clock, ver,
                   client, accounts, orderTables>>

\* The quantity the update branch writes.
MergedQuantityOverwrite(existingItem, quantity) == OrElse(quantity, 1)

MergedQuantity(existingItem, quantity) ==
    OrElse(Some(existingItem.quantity), 0) + OrElse(quantity, 1)

\* The row the insert branch writes.
NewCartRow(id, call) ==
    [id |-> id, userId |-> call.userId, productId |-> call.productId,
     quantity |-> IF call.quantity = Undefined THEN DefaultQuantity ELSE Val(call.quantity)]

SetQuantityAdding(table, id, quantity) ==
    {IF row.id = id THEN [row EXCEPT !.quantity = row.quantity + quantity] ELSE row :
        row \in table}

\* update cart_items set quantity = ? where id = ?
SetQuantity(table, id, quantity) ==
    {IF row.id = id THEN [row EXCEPT !.quantity = quantity] ELSE row : row \in table}

\* Second statement of addToCart: update by the id read before, or insert.
AddToCartWrite(r) ==
    /\ r \in 1..Len(req) /\ IsOp(r, "addToCart") /\ req[r].pc = "write"
    /\ IF req[r].existing # {}
       THEN LET ex == Val(req[r].existing)
                table == SetQuantity(cartItems, ex.id, MergedQuantity(ex, req[r].quantity))
            IN /\ cartItems' = table
               /\ Finish(r, {row \in table : row.id = ex.id}, ver + 1)
               /\ UNCHANGED nextCartId
       ELSE LET row == NewCartRow(nextCartId, req[r]) IN
            /\ CartInsertAllowed(cartItems, row)
            /\ cartItems' = cartItems \cup {row}
            /\ nextCartId' = nextCartId + 1
            /\ Finish(r, {row}, ver + 1)
    /\ ver' = ver + 1
    /\ UNCHANGED <<products, nextProductId, clock, client, accounts, orderTables>>

UpdateCartItemCall(id, quantity) ==
    [op |-> "updateCartItem", pc |-> "pending", id |-> id, quantity |-> quantity,
     result |-> {}, at |-> 0]

UpdateCartItem(r) ==
    /\ Pending(r) /\ IsOp(r, "updateCartItem")
    /\ LET table == SetQuantity(cartItems, req[r].id, req[r].quantity) IN
       /\ cartItems' = table
       /\ Finish(r, {row \in table : row.id = req[r].id}, ver + 1)
    /\ ver' = ver + 1
    /\ UNCHANGED <<products, nextProductId, nextCartId, clock, client, accounts, orderTables>>

RemoveFromCartCall(id) ==
    [op |-> "removeFromCart", pc |-> "pending", id |-> id, result |-> {}, at |-> 0]

RemoveFromCartRows(table, id) == {row \in table : row.id # id}

RemoveFromCart(r) ==
    /\ Pending(r) /\ IsOp(r, "removeFromCart")
    /\ cartItems' = RemoveFromCartRows(cartItems, req[r].id)
    /\ Finish(r, {}, ver + 1)
    /\ ver' = ver + 1
    /\ UNCHANGED <<products, nextProductId, nextCartId, clock, client, accounts, orderTables>>

ClearCartCall(userId) ==
    [op |-> "clearCart", pc |-> "pending", userId |-> userId, result |-> {}, at |-> 0]

\* delete from cart_items, every row.
ClearCartRowsOfAll(table, userId) == {}

ClearCartRows(table, userId) == {row \in table : row.userId # userId}

ClearCart(r) ==
    /\ Pending(r) /\ IsOp(r, "clearCart")
    /\ cartItems' = ClearCartRows(cartItems, req[r].userId)
    /\ Finish(r, {}, ver + 1)
    /\ ver' = ver + 1
    /\ UNCHANGED <<products, nextProductId, nextCartId, clock, client, accounts, orderTables>>

-----------------------------------------------------------------------------
\* Products.

DeleteProductCall(id) ==
    [op |-> "deleteProduct", pc |-> "pending", id |-> id, result |-> {}, at |-> 0]

DeleteProduct(r) ==
    /\ Pending(r) /\ IsOp(r, "deleteProduct")
    /\ ProductDeleteAllowed(req[r].id)
    /\ products' = {p \in products : p.id # req[r].id}
    /\ Finish(r, {}, ver + 1)
    /\ ver' = ver + 1
    /\ UNCHANGED <<nextProductId, cartItems, nextCartId, clock, client, accounts, orderTables>>

UpdateProductStockCall(id, quantity) ==
    [op |-> "updateProductStock", pc |-> "pending", id |-> id, quantity |-> quantity,
     result |-> {}, at |-> 0]

StockUpdateWhereFloor(p, id, quantity) == p.id = id /\ p.stock >= quantity

\* where products.id = ?
StockUpdateWhere(p, id, quantity) == p.id = id

\* A handler that reads the stock in one statement and writes stock - quantity
\* in a second one.
UpdateProductStockReadModifyWrite(r) ==
    /\ r \in 1..Len(req) /\ IsOp(r, "updateProductStock")
    /\ \/ /\ req[r].pc = "pending"
          /\ req' = [req EXCEPT ![r].pc = "write",
                                ![r].result = {p.stock : p \in {x \in products : x.id = req[r].id}}]
          /\ UNCHANGED <<products, ver>>
       \/ /\ req[r].pc = "write"
          /\ products' = {IF p.id = req[r].id
                          THEN [p EXCEPT !.stock = Val(req[r].result) - req[r].quantity]
                          ELSE p : p \in products}
          /\ Finish(r, {}, ver + 1)
          /\ ver' = ver + 1
    /\ UNCHANGED <<nextProductId, cartItems, nextCartId, clock, client, accounts, orderTables>>

\* update products set stock = stock - ? where id = ?: one statement.
UpdateProductStock(r) ==
    /\ Pending(r) /\ IsOp(r, "updateProductStock")
    /\ products' = {IF StockUpdateWhere(p, req[r].id, req[r].quantity)
                    THEN [p EXCEPT !.stock = p.stock - req[r].quantity]
                    ELSE p : p \in products}
    /\ Finish(r, {}, ver + 1)
    /\ ver' = ver + 1
    /\ UNCHANGED <<nextProductId, cartItems, nextCartId, clock, client, accounts, orderTables>>

\* A slug is a text; Slug(n) is the n-th of the slugs in use here.
Slug(n) == <<"s", n>>

\* price is the decimal string of the column, written as a number.
ProductRow(id, name, categoryId, stock, isFeatured, isActive, createdAt, slug, price) ==
    [id |-> id, name |-> name, categoryId |-> categoryId, stock |-> stock,
     isFeatured |-> isFeatured, isActive |-> isActive, createdAt |-> createdAt,
     slug |-> slug, price |-> price]

-----------------------------------------------------------------------------
\* Product listings (DatabaseStorage.getProducts, getFeaturedProducts).
\* Text is a tuple of one-character strings.

DefaultLimit == 20

DefaultOffset == 0

DefaultFeaturedLimit == 8

Lower(c) == CASE c = "A" -> "a" [] c = "B" -> "b" [] c = "C" -> "c" [] OTHER -> c

\* text ILIKE pattern: % matches any run of characters, _ any one character,
\* every other character itself, letters without regard to case.
RECURSIVE Like(_, _)
Like(text, pattern) ==
    IF pattern = <<>> THEN text = <<>>
    ELSE IF Head(pattern) = "%"
         THEN Like(text, Tail(pattern)) \/ (text # <<>> /\ Like(Tail(text), pattern))
         ELSE /\ text # <<>>
              /\ Head(pattern) = "_" \/ Lower(Head(pattern)) = Lower(Head(text))
              /\ Like(Tail(text), Tail(pattern))

\* sql`${products.name} ILIKE ${`%${search}%`}`
NameILike(name, search) == Like(name, <<"%">> \o search \o <<"%">>)

\* if (search): undefined and the empty string are falsy.
SearchGiven(search) == search # Undefined /\ Val(search) # <<>>

GetProductsWhereAnyActive(p, categoryId, search) ==
    /\ Truthy(categoryId) => p.categoryId = Some(Val(categoryId))
    /\ SearchGiven(search) => NameILike(p.name, Val(search))

\* and(...conditions) of getProducts.  A row whose categoryId is NULL equals
\* no categoryId.
GetProductsWhere(p, categoryId, search) ==
    /\ p.isActive = TRUE
    /\ Truthy(categoryId) => p.categoryId = Some(Val(categoryId))
    /\ SearchGiven(search) => NameILike(p.name, Val(search))

\* and(eq(isActive, true), eq(isFeatured, true)) of getFeaturedProducts.
GetFeaturedWhere(p) == p.isActive = TRUE /\ p.isFeatured = TRUE

Newest(rows) == {p \in rows : \A q \in rows : q.createdAt <= p.createdAt}

\* order by createdAt desc: every sequence of the rows that is descending in
\* createdAt.  Rows with equal createdAt come in any order, and the order may
\* differ from one statement to the next.
RECURSIVE OrderByCreatedAtDesc(_)
OrderByCreatedAtDesc(rows) ==
    IF rows = {} THEN {<<>>}
    ELSE UNION {{<<p>> \o rest : rest \in OrderByCreatedAtDesc(rows \ {p})} : p \in Newest(rows)}

Min(a, b) == IF a <= b THEN a ELSE b

PageIgnoringOffset(ordered, limit, offset) == SubSeq(ordered, 1, Min(Len(ordered), limit))

\* .limit(limit).offset(offset)
Page(ordered, limit, offset) == SubSeq(ordered, offset + 1, Min(Len(ordered), offset + limit))

GetProductsCall(limit, offset, categoryId, search) ==
    [op |-> "getProducts", pc |-> "pending",
     limit |-> IF limit = Undefined THEN DefaultLimit ELSE Val(limit),
     offset |-> IF offset = Undefined THEN DefaultOffset ELSE Val(offset),
     categoryId |-> categoryId, search |-> search, result |-> <<>>, at |-> 0]

GetProducts(r) ==
    /\ Pending(r) /\ IsOp(r, "getProducts")
    /\ \E ordered \in OrderByCreatedAtDesc(
              {p \in products : GetProductsWhere(p, req[r].categoryId, req[r].search)}) :
           Finish(r, Page(ordered, req[r].limit, req[r].offset), ver)
    /\ UNCHANGED <<products, nextProductId, cartItems, nextCartId, clock, ver,
                   client, accounts, orderTables>>

GetFeaturedProductsCall(limit) ==
    [op |-> "getFeaturedProducts", pc |-> "pending",
     limit |-> IF limit = Undefined THEN DefaultFeaturedLimit ELSE Val(limit),
     result |-> <<>>, at |-> 0]

GetFeaturedProducts(r) ==
    /\ Pending(r) /\ IsOp(r, "getFeaturedProducts")
    /\ \E ordered \in OrderByCreatedAtDesc({p \in products : GetFeaturedWhere(p)}) :
           Finish(r, Page(ordered, req[r].limit, 0), ver)
    /\ UNCHANGED <<products, nextProductId, cartItems, nextCartId, clock, ver,
                   client, accounts, orderTables>>

CreateProductCall(name, categoryId, stock, isFeatured, isActive, slug, price) ==
    [op |-> "createProduct", pc |-> "pending", name |-> name, categoryId |-> categoryId,
     stock |-> stock, isFeatured |-> isFeatured, isActive |-> isActive,
     slug |-> slug, price |-> price, result |-> {}, at |-> 0]

\* insert into products values (...) returning *: id from the serial,
\* createdAt from the database clock, which has moved on since the last insert
\* or has not.  An insert the unique index rejects stores nothing; the serial
\* has advanced all the same.
CreateProduct(r) ==
    /\ Pending(r) /\ IsOp(r, "createProduct")
    /\ \E now \in {clock, clock + 1} :
           LET row == ProductRow(nextProductId, req[r].name, req[r].categoryId, req[r].stock,
                                 req[r].isFeatured, req[r].isActive, now,
                                 req[r].slug, req[r].price)
           IN IF ProductsAllowed(products \cup {row})
              THEN /\ products' = products \cup {row}
                   /\ clock' = now
                   /\ ver' = ver + 1
                   /\ Finish(r, {row}, ver + 1)
              ELSE /\ now = clock
                   /\ Fail(r, "ConstraintViolation")
                   /\ UNCHANGED <<products, clock, ver>>
    /\ nextProductId' = nextProductId + 1
    /\ UNCHANGED <<cartItems, nextCartId, client, accounts, orderTables>>

SetFieldsNone(row, fields) == row

\* .set(product): the supplied fields replace the row's, the others stay.
SetFields(row, fields) ==
    [f \in DOMAIN row |-> IF f \in DOMAIN fields THEN fields[f] ELSE row[f]]

UpdateProductCall(id, fields) ==
    [op |-> "updateProduct", pc |-> "pending", id |-> id, fields |-> fields,
     result |-> {}, at |-> 0]

\* An update that also writes the product's new price into the order items
\* of the product.
UpdateProductRepricing(r) ==
    /\ Pending(r) /\ IsOp(r, "updateProduct")
    /\ LET table == {IF p.id = req[r].id THEN SetFields(p, req[r].fields) ELSE p :
                       p \in products}
       IN /\ products' = table
          /\ orderItems' = {IF i.productId = req[r].id /\ "price" \in DOMAIN req[r].fields
                            THEN [i EXCEPT !.price = req[r].fields.price]
                            ELSE i : i \in orderItems}
          /\ Finish(r, {p \in table : p.id = req[r].id}, ver + 1)
    /\ ver' = ver + 1
    /\ UNCHANGED <<nextProductId, cartItems, nextCartId, clock, client, accounts,
                   orders, nextOrderId, nextOrderItemId>>

UpdateProduct(r) ==
    /\ Pending(r) /\ IsOp(r, "updateProduct")
    /\ LET table == {IF p.id = req[r].id THEN SetFields(p, req[r].fields) ELSE p :
                       p \in products}
       IN IF ProductsAllowed(table)
          THEN /\ products' = table
               /\ ver' = ver + 1
               /\ Finish(r, {p \in table : p.id = req[r].id}, ver + 1)
          ELSE /\ Fail(r, "ConstraintViolation")
               /\ UNCHANGED <<products, ver>>
    /\ UNCHANGED <<nextProductId, cartItems, nextCartId, clock, client, accounts, orderTables>>

-----------------------------------------------------------------------------
\* Lookups by key, users and categories (DatabaseStorage.getUser ..
\* deleteCategory, getProductById, getProductBySlug).

\* The state outside of users and categories.
shop == <<products, nextProductId, cartItems, nextCartId, clock, client, orderTables>>

SelectFirstNothing(r, match) == Finish(r, Undefined, ver)

\* const [row] = await db.select()...where(...); return row || undefined.
\* Without ORDER BY the first row of several matches is any of them.
SelectFirst(r, match) ==
    \E res \in (IF match = {} THEN {Undefined} ELSE {{row} : row \in match}) :
        Finish(r, res, ver)

GetUserCall(id) ==
    [op |-> "getUser", pc |-> "pending", id |-> id, result |-> {}, at |-> 0]

GetUser(r) ==
    /\ Pending(r) /\ IsOp(r, "getUser")
    /\ SelectFirst(r, {u \in users : u.id = req[r].id})
    /\ UNCHANGED <<shop, accounts, ver>>

GetUserByUsernameCall(username) ==
    [op |-> "getUserByUsername", pc |-> "pending", username |-> username,
     result |-> {}, at |-> 0]

GetUserByUsername(r) ==
    /\ Pending(r) /\ IsOp(r, "getUserByUsername")
    /\ SelectFirst(r, {u \in users : u.username = req[r].username})
    /\ UNCHANGED <<shop, accounts, ver>>

GetUserByEmailCall(email) ==
    [op |-> "getUserByEmail", pc |-> "pending", email |-> email, result |-> {}, at |-> 0]

GetUserByEmail(r) ==
    /\ Pending(r) /\ IsOp(r, "getUserByEmail")
    /\ SelectFirst(r, {u \in users : u.email = req[r].email})
    /\ UNCHANGED <<shop, accounts, ver>>

UserRow(id, username, email, role) ==
    [id |-> id, username |-> username, email |-> email, role |-> role]

CreateUserCall(username, email, role) ==
    [op |-> "createUser", pc |-> "pending", username |-> username, email |-> email,
     role |-> role, result |-> {}, at |-> 0]

\* An insert that checks no unique index.
CreateUserUnchecked(r) ==
    /\ Pending(r) /\ IsOp(r, "createUser")
    /\ LET row == UserRow(nextUserId, req[r].username, req[r].email, req[r].role) IN
       /\ users' = users \cup {row}
       /\ Finish(r, {row}, ver + 1)
    /\ ver' = ver + 1
    /\ nextUserId' = nextUserId + 1
    /\ UNCHANGED <<shop, categories, nextCategoryId>>

\* insert into users values (...) returning *.
CreateUser(r) ==
    /\ Pending(r) /\ IsOp(r, "createUser")
    /\ LET row == UserRow(nextUserId, req[r].username, req[r].email, req[r].role) IN
       IF UsersAllowed(users \cup {row})
       THEN /\ users' = users \cup {row}
            /\ ver' = ver + 1
            /\ Finish(r, {row}, ver + 1)
       ELSE /\ Fail(r, "ConstraintViolation")
            /\ UNCHANGED <<users, ver>>
    /\ nextUserId' = nextUserId + 1
    /\ UNCHANGED <<shop, categories, nextCategoryId>>

GetCategoryByIdCall(id) ==
    [op |-> "getCategoryById", pc |-> "pending", id |-> id, result |-> {}, at |-> 0]

GetCategoryById(r) ==
    /\ Pending(r) /\ IsOp(r, "getCategoryById")
    /\ SelectFirst(r, {c \in categories : c.id = req[r].id})
    /\ UNCHANGED <<shop, accounts, ver>>

CategoryRow(id, name, slug) == [id |-> id, name |-> name, slug |-> slug]

CreateCategoryCall(name, slug) ==
    [op |-> "createCategory", pc |-> "pending", name |-> name, slug |-> slug,
     result |-> {}, at |-> 0]

\* insert into categories values (...) returning *.
CreateCategory(r) ==
    /\ Pending(r) /\ IsOp(r, "createCategory")
    /\ LET row == CategoryRow(nextCategoryId, req[r].name, req[r].slug) IN
       IF CategoriesAllowed(categories \cup {row})
       THEN /\ categories' = categories \cup {row}
            /\ ver' = ver + 1
            /\ Finish(r, {row}, ver + 1)
       ELSE /\ Fail(r, "ConstraintViolation")
            /\ UNCHANGED <<categories, ver>>
    /\ nextCategoryId' = nextCategoryId + 1
    /\ UNCHANGED <<shop, users, nextUserId>>

UpdateCategoryCall(id, fields) ==
    [op |-> "updateCategory", pc |-> "pending", id |-> id, fields |-> fields,
     result |-> {}, at |-> 0]

\* update categories set ... where id = ? returning *.
UpdateCategory(r) ==
    /\ Pending(r) /\ IsOp(r, "updateCategory")
    /\ LET table == {IF c.id = req[r].id THEN SetFields(c, req[r].fields) ELSE c :
                       c \in categories}
       IN IF CategoriesAllowed(table)
          THEN /\ categories' = table
               /\ ver' = ver + 1
               /\ Finish(r, {c \in table : c.id = req[r].id}, ver + 1)
          ELSE /\ Fail(r, "ConstraintViolation")
               /\ UNCHANGED <<categories, ver>>
    /\ UNCHANGED <<shop, users, nextUserId, nextCategoryId>>

DeleteCategoryCall(id) ==
    [op |-> "deleteCategory", pc |-> "pending", id |-> id, result |-> {}, at |-> 0]

\* A delete that reports an id it does not find as an error.
DeleteCategoryStrict(r) ==
    /\ Pending(r) /\ IsOp(r, "deleteCategory")
    /\ IF \E c \in categories : c.id = req[r].id
       THEN /\ categories' = {c \in categories : c.id # req[r].id}
            /\ ver' = ver + 1
            /\ Finish(r, {}, ver + 1)
       ELSE /\ Fail(r, "NotFound")
            /\ UNCHANGED <<categories, ver>>
    /\ UNCHANGED <<shop, users, nextUserId, nextCategoryId>>

\* delete from categories where id = ?.  products.categoryId is not an
\* enforced reference: the products of the category stay as they are.
DeleteCategory(r) ==
    /\ Pending(r) /\ IsOp(r, "deleteCategory")
    /\ categories' = {c \in categories : c.id # req[r].id}
    /\ Finish(r, {}, ver + 1)
    /\ ver' = ver + 1
    /\ UNCHANGED <<shop, users, nextUserId, nextCategoryId>>

GetProductByIdCall(id) ==
    [op |-> "getProductById", pc |-> "pending", id |-> id, result |-> {}, at |-> 0]

GetProductById(r) ==
    /\ Pending(r) /\ IsOp(r, "getProductById")
    /\ SelectFirst(r, {p \in products : p.id = req[r].id})
    /\ UNCHANGED <<shop, accounts, ver>>

GetProductBySlugCall(slug) ==
    [op |-> "getProductBySlug", pc |-> "pending", slug |-> slug, result |-> {}, at |-> 0]

GetProductBySlug(r) ==
    /\ Pending(r) /\ IsOp(r, "getProductBySlug")
    /\ SelectFirst(r, {p \in products : p.slug = req[r].slug})
    /\ UNCHANGED <<shop, accounts, ver>>

-----------------------------------------------------------------------------
\* Orders (DatabaseStorage.getOrders .. getOrderStats) and the checkout that
\* calls createOrder and createOrderItem.

\* The state outside of orders and order_items.
store == <<products, nextProductId, cartItems, nextCartId, client, accounts>>

OrderRow(id, userId, total, status, createdAt) ==
    [id |-> id, userId |-> userId, total |-> total, status |-> status, createdAt |-> createdAt]

OrderItemRow(id, orderId, productId, quantity, price) ==
    [id |-> id, orderId |-> orderId, productId |-> productId, quantity |-> quantity,
     price |-> price]

\* Sum of price * quantity over the lines of a cart.
RECURSIVE CartTotal(_)
CartTotal(lines) ==
    IF lines = {} THEN 0
    ELSE LET x == CHOOSE y \in lines : TRUE
         IN Val(x.product).price * x.item.quantity + CartTotal(lines \ {x})

\* POST /api/orders for the session's user.
CheckoutCall(userId) ==
    [op |-> "checkout", pc |-> "pending", userId |-> userId, lines |-> {}, todo |-> {},
     order |-> {}, result |-> {}, at |-> 0]

\* The route reads the user's cart; it takes the price of every line from the
\* line's product, which a line of a deleted product does not have.
CheckoutGetCart(r) ==
    /\ Pending(r) /\ IsOp(r, "checkout")
    /\ LET lines == GetCartItemsResult(cartItems, products, req[r].userId) IN
       IF \E line \in lines : line.product = {}
       THEN Fail(r, "TypeError")
       ELSE req' = [req EXCEPT ![r].pc = "order", ![r].lines = lines]
    /\ UNCHANGED <<store, orderTables, clock, ver>>

\* createOrder: insert into orders values (...) returning *.
CreateOrder(r) ==
    /\ IsOp(r, "checkout") /\ req[r].pc = "order"
    /\ \E now \in {clock, clock + 1} :
           LET row == OrderRow(nextOrderId, req[r].userId, CartTotal(req[r].lines),
                               "pending", now)
           IN /\ orders' = orders \cup {row}
              /\ clock' = now
              /\ req' = [req EXCEPT ![r].pc = "items", ![r].order = {row},
                                    ![r].todo = req[r].lines]
    /\ nextOrderId' = nextOrderId + 1
    /\ ver' = ver + 1
    /\ UNCHANGED <<store, orderItems, nextOrderItemId>>

\* createOrderItem for one more line of the cart: insert into order_items
\* values (...) returning *.
CreateOrderItem(r) ==
    /\ IsOp(r, "checkout") /\ req[r].pc = "items"
    /\ \E line \in req[r].todo :
           /\ orderItems' = orderItems \cup
                  {OrderItemRow(nextOrderItemId, Val(req[r].order).id, line.item.productId,
                                line.item.quantity, Val(line.product).price)}
           /\ req' = [req EXCEPT ![r].todo = req[r].todo \ {line}]
    /\ nextOrderItemId' = nextOrderItemId + 1
    /\ ver' = ver + 1
    /\ UNCHANGED <<store, orders, nextOrderId, clock>>

\* The insert of createOrderItem fails (the database is unreachable or the
\* statement times out): the error propagates and the checkout ends.
CreateOrderItemFails(r) ==
    /\ IsOp(r, "checkout") /\ req[r].pc = "items"
    /\ req[r].todo # {}
    /\ Fail(r, "ConnectivityFailure")
    /\ UNCHANGED <<store, orderTables, clock, ver>>

\* Every line has its order item: the route answers with the order.
CheckoutEnd(r) ==
    /\ IsOp(r, "checkout") /\ req[r].pc = "items"
    /\ req[r].todo = {}
    /\ Finish(r, req[r].order, ver)
    /\ UNCHANGED <<store, orderTables, clock, ver>>

OrderItemsOfEveryOrder(table, prods, orderId) ==
    UNION {JoinProduct(row, prods) : row \in table}

\* select ... from order_items left join products on productId = products.id
\* where orderId = ?, mapped to {...order_items, product: products!}.
OrderItemsOf(table, prods, orderId) ==
    UNION {JoinProduct(row, prods) : row \in {i \in table : i.orderId = orderId}}

GetOrderByIdCall(id) ==
    [op |-> "getOrderById", pc |-> "pending", id |-> id, order |-> {}, result |-> {},
     at |-> 0]

\* First statement of getOrderById: const [order] = await select ... ;
\* if (!order) return undefined.
GetOrderByIdSelect(r) ==
    /\ Pending(r) /\ IsOp(r, "getOrderById")
    /\ LET match == {o \in orders : o.id = req[r].id} IN
       IF match = {} THEN Finish(r, Undefined, ver)
       ELSE \E o \in match : req' = [req EXCEPT ![r].pc = "items", ![r].order = {o}]
    /\ UNCHANGED <<store, orderTables, clock, ver>>

\* Second statement of getOrderById: the items of the order.
GetOrderByIdItems(r) ==
    /\ IsOp(r, "getOrderById") /\ req[r].pc = "items"
    /\ Finish(r, {[order |-> Val(req[r].order),
                   orderItems |-> OrderItemsOf(orderItems, products, req[r].id)]}, ver)
    /\ UNCHANGED <<store, orderTables, clock, ver>>

DefaultOrdersLimit == 20

DefaultOrdersOffset == 0

GetOrdersCall(userId, limit, offset) ==
    [op |-> "getOrders", pc |-> "pending", userId |-> userId,
     limit |-> IF limit = Undefined THEN DefaultOrdersLimit ELSE Val(limit),
     offset |-> IF offset = Undefined THEN DefaultOrdersOffset ELSE Val(offset),
     list |-> <<>>, fetched |-> {}, rejected |-> {}, ordersWithItems |-> <<>>,
     result |-> <<>>, at |-> 0]

\* if (userId) ... where(eq(orders.userId, userId)) else no where clause.
GetOrdersWhere(o, userId) == Truthy(userId) => o.userId = Val(userId)

\* First statement of getOrders: the page of orders.  Promise.all of no
\* promise resolves at once.
GetOrdersSelect(r) ==
    /\ Pending(r) /\ IsOp(r, "getOrders")
    /\ \E ordered \in OrderByCreatedAtDesc({o \in orders : GetOrdersWhere(o, req[r].userId)}) :
           LET list == Page(ordered, req[r].limit, req[r].offset) IN
           IF list = <<>> THEN Finish(r, <<>>, ver)
           ELSE req' = [req EXCEPT ![r].pc = "items", ![r].list = list,
                                   ![r].ordersWithItems =
                                       [i \in 1..Len(list) |->
                                           [order |-> list[i], orderItems |-> {}]]]
    /\ UNCHANGED <<store, orderTables, clock, ver>>

\* One of the statements Promise.all awaits: the items of one order of the
\* page.  The statements run in any order; when the last one has resolved
\* Promise.all resolves and getOrders returns ordersWithItems.
GetOrdersItems(r) ==
    /\ IsOp(r, "getOrders") /\ req[r].pc = "items"
    /\ \E i \in (1..Len(req[r].list)) \ req[r].fetched :
           LET items == OrderItemsOf(orderItems, products, req[r].list[i].id)
               ordersWithItems == [req[r].ordersWithItems EXCEPT ![i].orderItems = items]
               last == req[r].fetched \cup {i} = 1..Len(req[r].list)
           IN req' = [req EXCEPT ![r].ordersWithItems = ordersWithItems,
                                 ![r].fetched = req[r].fetched \cup {i},
                                 ![r].pc = IF last THEN "done" ELSE "items",
                                 ![r].result = IF last THEN ordersWithItems ELSE <<>>,
                                 ![r].at = ver]
    /\ UNCHANGED <<store, orderTables, clock, ver>>

\* The orders of ordersWithItems whose items have been fetched, in the order
\* of the page.
RECURSIVE Fulfilled(_, _)
Fulfilled(ordersWithItems, fetched) ==
    IF ordersWithItems = <<>> THEN <<>>
    ELSE LET n == Len(ordersWithItems)
             init == Fulfilled(SubSeq(ordersWithItems, 1, n - 1), fetched)
         IN IF n \in fetched THEN Append(init, ordersWithItems[n]) ELSE init

\* Promise.allSettled in the place of Promise.all: the orders whose items
\* were fetched are returned.
GetOrdersItemsFailsSettled(r) ==
    /\ IsOp(r, "getOrders") /\ req[r].pc = "items"
    /\ \E i \in (1..Len(req[r].list)) \ req[r].fetched :
           req' = [req EXCEPT ![r].rejected = {i},
                              ![r].pc = "done",
                              ![r].result = Fulfilled(req[r].ordersWithItems, req[r].fetched),
                              ![r].at = ver]
    /\ UNCHANGED <<store, orderTables, clock, ver>>

\* One of the statements Promise.all awaits rejects (the database is
\* unreachable or the statement times out): Promise.all rejects with it, the
\* await throws and getOrders rejects.
GetOrdersItemsFails(r) ==
    /\ IsOp(r, "getOrders") /\ req[r].pc = "items"
    /\ \E i \in (1..Len(req[r].list)) \ req[r].fetched :
           req' = [req EXCEPT ![r] = [pc |-> "failed", error |-> "ConnectivityFailure",
                                      rejected |-> {i}] @@ req[r]]
    /\ UNCHANGED <<store, orderTables, clock, ver>>

UpdateOrderStatusCall(id, status) ==
    [op |-> "updateOrderStatus", pc |-> "pending", id |-> id, status |-> status,
     result |-> {}, at |-> 0]

\* update orders set status = ? where id = ? and status <> 'cancelled'
\* returning *.
UpdateOrderStatusChecked(r) ==
    /\ Pending(r) /\ IsOp(r, "updateOrderStatus")
    /\ LET table == {IF o.id = req[r].id /\ o.status # "cancelled"
                     THEN [o EXCEPT !.status = req[r].status] ELSE o : o \in orders}
       IN /\ orders' = table
          /\ Finish(r, {o \in table : o.id = req[r].id /\ o \notin orders}, ver + 1)
    /\ ver' = ver + 1
    /\ UNCHANGED <<store, nextOrderId, orderItems, nextOrderItemId, clock>>

\* update orders set status = ? where id = ? returning *.
UpdateOrderStatus(r) ==
    /\ Pending(r) /\ IsOp(r, "updateOrderStatus")
    /\ LET table == {IF o.id = req[r].id THEN [o EXCEPT !.status = req[r].status] ELSE o :
                       o \in orders}
       IN /\ orders' = table
          /\ Finish(r, {o \in table : o.id = req[r].id}, ver + 1)
    /\ ver' = ver + 1
    /\ UNCHANGED <<store, nextOrderId, orderItems, nextOrderItemId, clock>>

\* Sum of the total fields of a set of orders.
RECURSIVE SumTotal(_)
SumTotal(rows) ==
    IF rows = {} THEN 0
    ELSE LET x == CHOOSE y \in rows : TRUE IN x.total + SumTotal(rows \ {x})

Digit(d) == <<"0", "1", "2", "3", "4", "5", "6", "7", "8", "9">>[d + 1]

\* The text of a number as the database returns a numeric (sql<string>): a
\* string is a sequence of characters.
RECURSIVE NumericText(_)
NumericText(n) ==
    IF n < 10 THEN <<Digit(n)>> ELSE NumericText(n \div 10) \o <<Digit(n % 10)>>

\* JavaScript truthiness of an optional string: undefined, null and "" are
\* falsy; "0" is truthy.
TruthyText(o) == o # {} /\ o # {<<>>}

GetOrderStatsCall ==
    [op |-> "getOrderStats", pc |-> "pending", totalOrders |-> 0, totalRevenue |-> {},
     totalProducts |-> 0, result |-> {}, at |-> 0]

\* First statement of getOrderStats: count(*) and sum(total) of orders; the
\* sum over no row is null.
GetOrderStatsOrders(r) ==
    /\ Pending(r) /\ IsOp(r, "getOrderStats")
    /\ req' = [req EXCEPT ![r].pc = "products",
                          ![r].totalOrders = Cardinality(orders),
                          ![r].totalRevenue = IF orders = {} THEN Undefined
                                              ELSE Some(NumericText(SumTotal(orders)))]
    /\ UNCHANGED <<store, orderTables, clock, ver>>

\* select count(*) from products where the product is active.
GetOrderStatsProductsActive(r) ==
    /\ IsOp(r, "getOrderStats") /\ req[r].pc = "products"
    /\ req' = [req EXCEPT ![r].pc = "customers",
                          ![r].totalProducts = Cardinality({p \in products : p.isActive})]
    /\ UNCHANGED <<store, orderTables, clock, ver>>

\* Second statement of getOrderStats: count(*) of products.
GetOrderStatsProducts(r) ==
    /\ IsOp(r, "getOrderStats") /\ req[r].pc = "products"
    /\ req' = [req EXCEPT ![r].pc = "customers", ![r].totalProducts = Cardinality(products)]
    /\ UNCHANGED <<store, orderTables, clock, ver>>

TotalRevenueAsRead(totalRevenue) == totalRevenue

\* orderStats.totalRevenue || '0'
TotalRevenue(totalRevenue) ==
    IF TruthyText(totalRevenue) THEN totalRevenue ELSE Some(<<"0">>)

\* Third statement of getOrderStats: count(*) of users where role = 'user';
\* then the four numbers are returned, each with its `|| 0` or `|| '0'`.
GetOrderStatsCustomers(r) ==
    /\ IsOp(r, "getOrderStats") /\ req[r].pc = "customers"
    /\ LET totalCustomers == Cardinality({u \in users : u.role = "user"}) IN
       Finish(r, {[totalOrders |-> OrElse(Some(req[r].totalOrders), 0),
                   totalRevenue |-> TotalRevenue(req[r].totalRevenue),
                   totalProducts |-> OrElse(Some(req[r].totalProducts), 0),
                   totalCustomers |-> OrElse(Some(totalCustomers), 0)]}, ver)
    /\ UNCHANGED <<store, orderTables, clock, ver>>

-----------------------------------------------------------------------------
\* The cart under concurrent requests: two users, two seeded products.

CartUsers == {1, 2}

CartProducts == {1, 2}

CartQuantities == {{1}, {2}}

CartCalls ==
    {AddToCartCall(u, 1, q) : u \in CartUsers, q \in CartQuantities}
    \cup {UpdateCartItemCall(1, 3)}
    \cup {RemoveFromCartCall(1)}
    \cup {ClearCartCall(1)}
    \cup {GetCartItemsCall(u) : u \in CartUsers}
    \cup {DeleteProductCall(1)}

\* Stock of the seeded products.
SeedStock == 10

SeededProducts ==
    {ProductRow(p, <<"a">>, {1}, SeedStock, FALSE, TRUE, p, Slug(p), 5) : p \in CartProducts}

\* The pages before anything has loaded: the auth query is loading, the
\* product page has quantity 1 (useState(1)) and no product yet, the checkout
\* modal is closed at step 1 (useState(1)) with an idle mutation.
BrowserInit ==
    /\ auth = [user |-> Undefined, isLoading |-> TRUE]
    /\ adminView = "spinner"
    /\ productPage = [product |-> Undefined, quantity |-> 1]
    /\ checkout = [isOpen |-> FALSE, step |-> 1, status |-> "idle"]
    /\ inflight = {}

ClientInit ==
    /\ cache = {}
    /\ clearSnap = {}
    /\ clearTodo = {}
    /\ clientPc = "idle"
    /\ BrowserInit

\* No user and no category is stored.
NoAccounts ==
    /\ users = {}
    /\ nextUserId = 1
    /\ categories = {}
    /\ nextCategoryId = 1

\* No order is stored.
NoOrders ==
    /\ orders = {}
    /\ nextOrderId = 1
    /\ orderItems = {}
    /\ nextOrderItemId = 1

Init ==
    /\ ClientInit
    /\ NoAccounts
    /\ NoOrders
    /\ products = SeededProducts
    /\ nextProductId = 3
    /\ cartItems = {}
    /\ nextCartId = 1
    /\ clock = 3
    /\ ver = 0
    /\ req = <<>>

CartStep(r) ==
    \/ AddToCartSelect(r)
    \/ AddToCartWrite(r)
    \/ UpdateCartItem(r)
    \/ RemoveFromCart(r)
    \/ ClearCart(r)
    \/ GetCartItems(r)
    \/ DeleteProduct(r)

Next ==
    \/ \E call \in CartCalls : Arrive(call)
    \/ \E r \in 1..MaxReqs : CartStep(r)

Spec == Init /\ [][Next]_vars

-----------------------------------------------------------------------------
\* The cart when the storage calls run one after the other: a request
\* arrives only when every earlier one has completed.

SeqQuantities == {Undefined, {0}, {2}, {3}}

SeqCalls ==
    {AddToCartCall(u, p, q) : u \in CartUsers, p \in CartProducts, q \in SeqQuantities}
    \cup {UpdateCartItemCall(1, q) : q \in {-1, 0, 4}}
    \cup {RemoveFromCartCall(1)}
    \cup {ClearCartCall(1)}
    \cup {GetCartItemsCall(1)}
    \cup {DeleteProductCall(1)}

ArriveSeq(call) ==
    /\ \A r \in 1..Len(req) : Done(r) \/ Failed(r)
    /\ Arrive(call)

NextSeq ==
    \/ \E call \in SeqCalls : ArriveSeq(call)
    \/ \E r \in 1..MaxReqs : CartStep(r)

SpecSeq == Init /\ [][NextSeq]_vars

-----------------------------------------------------------------------------
\* Properties of the cart.

IsAdd(r, userId, productId) ==
    /\ IsOp(r, "addToCart")
    /\ req[r].userId = userId
    /\ req[r].productId = productId

\* Sum of the requested quantities of the addToCart requests 1..n for a pair.
RECURSIVE Added(_, _, _)
Added(n, userId, productId) ==
    IF n = 0 THEN 0
    ELSE (IF IsAdd(n, userId, productId) THEN Val(req[n].quantity) ELSE 0)
         + Added(n - 1, userId, productId)

OnlyPositiveAdds ==
    \A r \in 1..Len(req) :
        IsOp(r, "addToCart") /\ req[r].quantity # Undefined /\ Val(req[r].quantity) > 0

AllDone == \A r \in 1..Len(req) : Done(r)

\* C1: the cart table never holds two rows with the same (userId, productId).
C1_OneRowPerPair ==
    \A a \in cartItems : \A b \in cartItems :
        (a.userId = b.userId /\ a.productId = b.productId) => a.id = b.id

\* C2: when addToCart requests with positive quantities, concurrent or not, are
\* all the requests there were and all have completed, the quantity the cart
\* holds for a pair is the sum of all the requested increments: none is lost.
C2_NoLostIncrement ==
    (Len(req) >= 2 /\ OnlyPositiveAdds /\ AllDone) =>
        \A u \in CartUsers : \A p \in CartProducts :
            SumQuantity(CartLines(cartItems, u, p)) = Added(Len(req), u, p)

\* Two consecutive addToCart calls r1, r1 + 1 for one pair with positive
\* quantities, the first of which found no line of the pair, the second of
\* which has completed and is the latest call.
TwoSequentialAdds(r1) ==
    LET r2 == r1 + 1 IN
    /\ r2 = Len(req)
    /\ IsOp(r1, "addToCart") /\ IsAdd(r2, req[r1].userId, req[r1].productId)
    /\ Done(r1) /\ Done(r2)
    /\ req[r1].existing = {}
    /\ req[r1].quantity # Undefined /\ Val(req[r1].quantity) > 0
    /\ req[r2].quantity # Undefined /\ Val(req[r2].quantity) > 0

\* C3: two sequential addToCart calls for one pair with positive quantities q1
\* then q2, starting without a line of the pair, leave exactly one line of the
\* pair, with quantity q1 + q2.
C3_SequentialAddsMerge ==
    \A r1 \in 1..MaxReqs :
        TwoSequentialAdds(r1) =>
            LET lines == CartLines(cartItems, req[r1].userId, req[r1].productId) IN
            /\ Cardinality(lines) = 1
            /\ \A row \in lines :
                   row.quantity = Val(req[r1].quantity) + Val(req[r1 + 1].quantity)

\* Witness of C3: user 1 added product 1 with quantity 2, then 3.
C3_Witness ==
    \E r1 \in 1..MaxReqs :
        /\ TwoSequentialAdds(r1)
        /\ IsAdd(r1, 1, 1)
        /\ req[r1].quantity = {2} /\ req[r1 + 1].quantity = {3}
        /\ \E row \in cartItems : row.quantity = 5

\* The table has not been written since request r ran.
Fresh(r) == Done(r) /\ req[r].at = ver

\* C9: getCartItems(userId) returns one entry per cart line of the user, none
\* of another user, each with the product row of its productId.
C9_CartItemsCarryProduct ==
    \A r \in 1..Len(req) :
        (IsOp(r, "getCartItems") /\ Fresh(r)) =>
            /\ {e.item : e \in req[r].result} = UserLines(cartItems, req[r].userId)
            /\ Cardinality(req[r].result) = Cardinality(UserLines(cartItems, req[r].userId))
            /\ \A e \in req[r].result :
                   /\ e.product # {}
                   /\ e.product \subseteq products
                   /\ \A p \in e.product : p.id = e.item.productId

-----------------------------------------------------------------------------
\* Stock adjustment under concurrent requests.  Product 3 does not exist.

StockCalls ==
    {UpdateProductStockCall(1, q) : q \in {3, 4, SeedStock + 1}}
    \cup {UpdateProductStockCall(id, 3) : id \in {2, 3}}
    \cup {DeleteProductCall(1)}

StockStep(r) ==
    \/ UpdateProductStock(r)
    \/ DeleteProduct(r)

NextStock ==
    \/ \E call \in StockCalls : Arrive(call)
    \/ \E r \in 1..MaxReqs : StockStep(r)

SpecStock == Init /\ [][NextStock]_vars

\* Sum of the quantities of the completed updateProductStock requests 1..n
\* for product id.
RECURSIVE Decremented(_, _)
Decremented(n, id) ==
    IF n = 0 THEN 0
    ELSE (IF IsOp(n, "updateProductStock") /\ Done(n) /\ req[n].id = id
          THEN req[n].quantity ELSE 0)
         + Decremented(n - 1, id)

\* C4: no updateProductStock is lost: whatever the interleaving, the stock of a
\* product is its initial stock minus every decrement that has completed.
C4_StockNoLostUpdate ==
    \A p \in products : p.stock = SeedStock - Decremented(Len(req), p.id)

\* Witness of C4: decrements of 4 and 3 on product 1 have both completed and
\* the stock went from 10 to 3.  The one that arrived first ran right after
\* the other, so both were in flight together.
C4_Witness ==
    /\ SeedStock = 10
    /\ \E r1 \in 1..Len(req) : \E r2 \in 1..Len(req) :
           /\ r1 # r2 /\ Done(r1) /\ Done(r2)
           /\ IsOp(r1, "updateProductStock") /\ IsOp(r2, "updateProductStock")
           /\ req[r1].id = 1 /\ req[r2].id = 1
           /\ req[r1].quantity = 4 /\ req[r2].quantity = 3
           /\ req[r1].at = req[r2].at + 1 /\ r1 < r2
    /\ \E p \in products : p.id = 1 /\ p.stock = 3

\* C5: an updateProductStock(id, q) step on an existing product with stock s
\* leaves stock s - q, whatever s and q are: there is no floor.
C5_NoFloorCheck ==
    [][\A r \in 1..MaxReqs :
           (Pending(r) /\ IsOp(r, "updateProductStock") /\ Done(r)') =>
               \A p \in products :
                   p.id = req[r].id =>
                       \E p2 \in products' :
                           p2.id = p.id /\ p2.stock = p.stock - req[r].quantity]_vars

\* Witness of C5: a decrement larger than the stock has completed and the stock
\* is negative.
C5_Witness ==
    \E r \in 1..Len(req) :
        /\ IsOp(r, "updateProductStock") /\ Done(r)
        /\ \E p \in products : p.id = req[r].id /\ p.stock < 0 /\ req[r].quantity > SeedStock

-----------------------------------------------------------------------------
\* The catalog: listings with filters over a table that createProduct and
\* updateProduct change.  Each call is one statement, so the calls are taken
\* one at a time.

CatalogSeed ==
    {ProductRow(1, <<"a", "B">>, {1}, SeedStock, TRUE, TRUE, 1, Slug(1), 5),
     ProductRow(2, <<"c">>, {2}, SeedStock, FALSE, TRUE, 2, Slug(2), 5)}

InitCatalog ==
    /\ ClientInit
    /\ NoAccounts
    /\ NoOrders
    /\ products = CatalogSeed
    /\ nextProductId = 3
    /\ cartItems = {}
    /\ nextCartId = 1
    /\ clock = 3
    /\ ver = 0
    /\ req = <<>>

CatalogCalls ==
    {CreateProductCall(<<"b", "c">>, Undefined, 0, TRUE, active, Slug(IF active THEN 3 ELSE 4), 5) :
        active \in BOOLEAN}
    \cup {UpdateProductCall(1, [isActive |-> FALSE]),
          UpdateProductCall(2, [isFeatured |-> TRUE]),
          UpdateProductCall(2, [isActive |-> FALSE, categoryId |-> {1}])}
    \cup {GetProductsCall(Undefined, Undefined, categoryId, search) :
            categoryId \in {Undefined, {0}, {1}},
            search \in {Undefined, {<<"b">>}, {<<"_">>}}}
    \cup {GetProductsCall({1}, {1}, categoryId, Undefined) : categoryId \in {Undefined, {1}}}
    \cup {GetFeaturedProductsCall(limit) : limit \in {Undefined, {1}}}

CatalogStep(r) ==
    \/ GetProducts(r)
    \/ GetFeaturedProducts(r)
    \/ CreateProduct(r)
    \/ UpdateProduct(r)

NextCatalog ==
    \/ \E call \in CatalogCalls : ArriveSeq(call)
    \/ \E r \in 1..MaxReqs : CatalogStep(r)

SpecCatalog == InitCatalog /\ [][NextCatalog]_vars

ResultRows(r) == {req[r].result[i] : i \in 1..Len(req[r].result)}

\* C6: no row of a getProducts or getFeaturedProducts result has
\* isActive = false, and every row of a getFeaturedProducts result has
\* isFeatured = true.
C6_ActiveOnly ==
    \A r \in 1..Len(req) :
        /\ (IsOp(r, "getProducts") /\ Done(r)) =>
               \A p \in ResultRows(r) : p.isActive = TRUE
        /\ (IsOp(r, "getFeaturedProducts") /\ Done(r)) =>
               \A p \in ResultRows(r) : p.isActive = TRUE /\ p.isFeatured = TRUE

\* Witness of C6: a listing with no filter ran while an inactive product was
\* stored, and returned rows, none of them the inactive one.
C6_Witness ==
    \E r \in 1..Len(req) :
        /\ IsOp(r, "getProducts") /\ Fresh(r)
        /\ req[r].categoryId = Undefined /\ req[r].search = Undefined
        /\ req[r].result # <<>>
        /\ \E p \in products : ~p.isActive /\ p \notin ResultRows(r)

\* name contains search as a substring, letters compared without case.
RECURSIVE IsPrefixNoCase(_, _)
IsPrefixNoCase(search, text) ==
    \/ search = <<>>
    \/ /\ text # <<>>
       /\ Lower(Head(search)) = Lower(Head(text))
       /\ IsPrefixNoCase(Tail(search), Tail(text))

RECURSIVE ContainsNoCase(_, _)
ContainsNoCase(text, search) ==
    \/ IsPrefixNoCase(search, text)
    \/ text # <<>> /\ ContainsNoCase(Tail(text), search)

\* The rows the claim's filters select: active, of the supplied category, with
\* the supplied string in the name.
Selected(r) ==
    {p \in products :
        /\ p.isActive
        /\ req[r].categoryId # Undefined => p.categoryId = req[r].categoryId
        /\ req[r].search # Undefined => ContainsNoCase(p.name, Val(req[r].search))}

Max(a, b) == IF a >= b THEN a ELSE b

\* C8: every row getProducts returns meets all supplied filters, and the
\* rows meeting them are all returned but for those limit and offset cut off.
C8_FiltersCombineWithAnd ==
    \A r \in 1..Len(req) :
        (IsOp(r, "getProducts") /\ Fresh(r)) =>
            /\ ResultRows(r) \subseteq Selected(r)
            /\ Len(req[r].result)
                   = Min(req[r].limit, Max(0, Cardinality(Selected(r)) - req[r].offset))

-----------------------------------------------------------------------------
\* Paging through the listing: four or five stored products whose createdAt
\* values rise with the id, with or without ties, and calls taken one at a
\* time.

PageTimes == 1..4

\* The createdAt values of products 1..4, one per order of creation times: the
\* first is 1 and each next one equals the one before or is one later (the
\* serial and the clock both only rise).
Rising ==
    {t \in [1..4 -> PageTimes] :
        t[1] = 1 /\ \A i \in 1..3 : t[i + 1] \in {t[i], t[i] + 1}}

PageSeed(t) ==
    {ProductRow(i, <<"a">>, {1}, SeedStock, FALSE, TRUE, t[i], Slug(i), 5) : i \in 1..4}

InitPage ==
    /\ ClientInit
    /\ NoAccounts
    /\ NoOrders
    /\ \E t \in Rising : products = PageSeed(t) /\ clock = t[4]
    /\ nextProductId = 5
    /\ cartItems = {}
    /\ nextCartId = 1
    /\ ver = 0
    /\ req = <<>>

PageCalls ==
    {GetProductsCall({2}, offset, Undefined, Undefined) : offset \in {{0}, {2}}}
    \cup {CreateProductCall(<<"a">>, {1}, 0, FALSE, TRUE, Slug(5), 5)}
    \cup {UpdateProductCall(1, [isActive |-> FALSE])}

PageStep(r) ==
    \/ GetProducts(r)
    \/ CreateProduct(r)
    \/ UpdateProduct(r)

NextPage ==
    \/ \E call \in PageCalls : ArriveSeq(call)
    \/ \E r \in 1..MaxReqs : PageStep(r)

SpecPage == InitPage /\ [][NextPage]_vars

ActiveProducts == {p \in products : p.isActive}

\* r1 is getProducts(2, 0), r2 a later getProducts(2, 2), neither with a
\* filter; no write ran between them or since, and at least four active
\* products are stored.
TwoPages(r1, r2) ==
    /\ r1 < r2
    /\ IsOp(r1, "getProducts") /\ IsOp(r2, "getProducts")
    /\ Fresh(r1) /\ Fresh(r2)
    /\ req[r1].limit = 2 /\ req[r1].offset = 0
    /\ req[r2].limit = 2 /\ req[r2].offset = 2
    /\ req[r1].categoryId = Undefined /\ req[r2].categoryId = Undefined
    /\ req[r1].search = Undefined /\ req[r2].search = Undefined
    /\ Cardinality(ActiveProducts) >= 4

StrictlyDescending(rows) ==
    \A i \in 1..Len(rows) : \A j \in 1..Len(rows) :
        i < j => rows[i].createdAt > rows[j].createdAt

Descending(rows) ==
    \A i \in 1..Len(rows) : \A j \in 1..Len(rows) :
        i < j => rows[i].createdAt >= rows[j].createdAt

DistinctRows(rows) ==
    \A i \in 1..Len(rows) : \A j \in 1..Len(rows) : i # j => rows[i].id # rows[j].id

DistinctTimes(rows) ==
    \A p \in rows : \A q \in rows : p.createdAt = q.createdAt => p.id = q.id

\* C7 as claimed: the two pages hold four distinct products in strictly
\* descending createdAt order, whatever the createdAt values are.
C7_PagesStrictlyDescending ==
    \A r1 \in 1..Len(req) : \A r2 \in 1..Len(req) :
        TwoPages(r1, r2) =>
            LET both == req[r1].result \o req[r2].result IN
            /\ Len(both) = 4
            /\ DistinctRows(both)
            /\ StrictlyDescending(both)

\* C7 as amended: the two pages hold two active products each, in descending
\* createdAt order across both pages; when the createdAt values of the active
\* products are pairwise distinct, the four are distinct and strictly
\* descending.
C7_PagesDescending ==
    \A r1 \in 1..Len(req) : \A r2 \in 1..Len(req) :
        TwoPages(r1, r2) =>
            LET both == req[r1].result \o req[r2].result IN
            /\ Len(req[r1].result) = 2 /\ Len(req[r2].result) = 2
            /\ \A i \in 1..Len(both) : both[i] \in ActiveProducts
            /\ Descending(both)
            /\ DistinctTimes(ActiveProducts) =>
                   DistinctRows(both) /\ StrictlyDescending(both)

\* Witness of C7: two pages were read without a write between them from four
\* or more active products with pairwise distinct createdAt values.
C7_Witness ==
    \E r1 \in 1..Len(req) : \E r2 \in 1..Len(req) :
        /\ TwoPages(r1, r2)
        /\ DistinctTimes(ActiveProducts)
        /\ req[r1].result[1].createdAt > req[r2].result[2].createdAt

-----------------------------------------------------------------------------
\* The cart context of the client (CartProvider) of user 1, next to storage
\* requests of other sessions.

ClientUser == 1

\* GET /api/cart: the route answers with getCartItems of the session's user.
ApiGetCart(userId) == GetCartItemsResult(cartItems, products, userId)

\* DELETE /api/cart/:id: the route calls removeFromCart(id).
ApiDeleteCartItem(id) == RemoveFromCartRows(cartItems, id)

\* useQuery({ queryKey: ["/api/cart"] }): the query is fetched, or fetched
\* again after invalidateQueries.
ClientFetch ==
    /\ cache' = ApiGetCart(ClientUser)
    /\ cache' # cache
    /\ UNCHANGED <<products, nextProductId, cartItems, nextCartId, clock, ver, req,
                   clearSnap, clearTodo, clientPc, browser, accounts, orderTables>>

\* clearCart() is called, once in a behaviour: the loop starts over the
\* cartItems of this render.
ClientClearStart ==
    /\ clientPc = "idle"
    /\ clientPc' = "clearing"
    /\ clearSnap' = {e.item.id : e \in cache}
    /\ clearTodo' = {e.item.id : e \in cache}
    /\ UNCHANGED <<products, nextProductId, cartItems, nextCartId, clock, ver, req, cache,
                   browser, accounts, orderTables>>

\* One turn of the loop: await removeFromCartMutation.mutateAsync(item.id).
ClientClearStep ==
    /\ clientPc = "clearing"
    /\ \E id \in clearTodo :
           /\ cartItems' = ApiDeleteCartItem(id)
           /\ clearTodo' = clearTodo \ {id}
    /\ ver' = ver + 1
    /\ UNCHANGED <<products, nextProductId, nextCartId, clock, req, cache, clearSnap, clientPc,
                   browser, accounts, orderTables>>

\* The loop has run out of items: clearCart() resolves.
ClientClearEnd ==
    /\ clientPc = "clearing"
    /\ clearTodo = {}
    /\ clientPc' = "cleared"
    /\ UNCHANGED <<products, nextProductId, cartItems, nextCartId, clock, ver, req,
                   cache, clearSnap, clearTodo, browser, accounts, orderTables>>

ClientCalls ==
    {AddToCartCall(u, 1, {1}) : u \in CartUsers}
    \cup {ClearCartCall(ClientUser)}

ClientSideStep(r) ==
    \/ AddToCartSelect(r)
    \/ AddToCartWrite(r)
    \/ ClearCart(r)

NextClient ==
    \/ \E call \in ClientCalls : Arrive(call)
    \/ \E r \in 1..MaxReqs : ClientSideStep(r)
    \/ ClientFetch
    \/ ClientClearStart
    \/ ClientClearStep
    \/ ClientClearEnd

\* The client's user has put both products into the cart, one after the
\* other, and the cart query has been fetched.
ClientCart ==
    {[id |-> p, userId |-> ClientUser, productId |-> p, quantity |-> DefaultQuantity] :
        p \in CartProducts}

InitClient ==
    /\ products = SeededProducts
    /\ nextProductId = 3
    /\ cartItems = ClientCart
    /\ nextCartId = 3
    /\ clock = 3
    /\ ver = 2
    /\ req = <<>>
    /\ cache = GetCartItemsResult(ClientCart, SeededProducts, ClientUser)
    /\ clearSnap = {}
    /\ clearTodo = {}
    /\ clientPc = "idle"
    /\ BrowserInit
    /\ NoAccounts
    /\ NoOrders

SpecClient == InitClient /\ [][NextClient]_vars

\* The client's clear has removed a line of its list and the user still has
\* a line.
PartlyCleared ==
    /\ clientPc = "clearing"
    /\ \E id \in clearSnap \ clearTodo : \A row \in cartItems : row.id # id
    /\ UserLines(cartItems, ClientUser) # {}

\* C10: a clear, of the storage or of the client, is one atomic operation: no
\* state shows a cart that a clear has partly emptied, and when a clear
\* completes the user has no cart line.
C10_ClearIsAtomic ==
    [][/\ \A r \in 1..MaxReqs :
              (Pending(r) /\ IsOp(r, "clearCart") /\ Done(r)') =>
                  UserLines(cartItems', req[r].userId) = {}
       /\ (clientPc = "clearing" /\ clientPc' = "cleared") =>
              UserLines(cartItems', ClientUser) = {}
       /\ ~PartlyCleared']_vars

-----------------------------------------------------------------------------
\* Orders under concurrent requests: user 1 has both products in the cart,
\* the request of the checkout has arrived, and orders are read while it runs.

SeededUsers == {UserRow(1, "u1", "e1", "user"), UserRow(2, "u2", "e2", "admin")}

InitOrders ==
    /\ ClientInit
    /\ products = SeededProducts
    /\ nextProductId = 3
    /\ cartItems = ClientCart
    /\ nextCartId = 3
    /\ clock = 3
    /\ ver = 0
    /\ req = <<CheckoutCall(1)>>
    /\ users = SeededUsers
    /\ nextUserId = 3
    /\ categories = {}
    /\ nextCategoryId = 1
    /\ NoOrders

OrderCalls ==
    {GetOrderByIdCall(1),
     GetOrdersCall(Undefined, Undefined, Undefined)}

OrderStep(r) ==
    \/ CheckoutGetCart(r)
    \/ CreateOrder(r)
    \/ CreateOrderItem(r)
    \/ CreateOrderItemFails(r)
    \/ CheckoutEnd(r)
    \/ GetOrderByIdSelect(r)
    \/ GetOrderByIdItems(r)
    \/ GetOrdersSelect(r)
    \/ GetOrdersItems(r)

NextOrders ==
    \/ \E call \in OrderCalls : Arrive(call)
    \/ \E r \in 1..MaxReqs : OrderStep(r)

SpecOrders == InitOrders /\ [][NextOrders]_vars

\* The order items stored for order id.
ItemsOfOrder(id) == {i \in orderItems : i.orderId = id}

\* C11: an order is never seen, and never left, with fewer order items than
\* the cart of its checkout had lines: every getOrderById and getOrders
\* result that holds the order of a checkout holds one item per cart line,
\* and a checkout that failed has left no order with only part of its items.
C11_OrderItemsAtomic ==
    \A c \in 1..Len(req) :
        (IsOp(c, "checkout") /\ req[c].order # {}) =>
            LET id == Val(req[c].order).id
                n == Cardinality(req[c].lines)
            IN /\ \A r \in 1..Len(req) :
                      (IsOp(r, "getOrderById") /\ Done(r) /\ req[r].result # Undefined
                          /\ Val(req[r].result).order.id = id) =>
                          Cardinality(Val(req[r].result).orderItems) = n
               /\ \A r \in 1..Len(req) :
                      (IsOp(r, "getOrders") /\ Done(r)) =>
                          \A i \in 1..Len(req[r].result) :
                              req[r].result[i].order.id = id =>
                                  Cardinality(req[r].result[i].orderItems) = n
               /\ Failed(c) => Cardinality(ItemsOfOrder(id)) = n

-----------------------------------------------------------------------------
\* Orders when the calls run one after the other.  User 2 has an order of
\* product 2 from an earlier checkout; user 1 has both products in the cart.

SeededOrders == {OrderRow(1, 2, 5, "pending", 3)}

SeededOrderItems == {OrderItemRow(1, 1, 2, 1, 5)}

InitOrdersSeq ==
    /\ ClientInit
    /\ products = SeededProducts
    /\ nextProductId = 3
    /\ cartItems = ClientCart
    /\ nextCartId = 3
    /\ clock = 3
    /\ ver = 0
    /\ req = <<>>
    /\ users = SeededUsers
    /\ nextUserId = 3
    /\ categories = {}
    /\ nextCategoryId = 1
    /\ orders = SeededOrders
    /\ nextOrderId = 2
    /\ orderItems = SeededOrderItems
    /\ nextOrderItemId = 2

OrderSeqCalls ==
    {CheckoutCall(1),
     UpdateOrderStatusCall(1, "completed"),
     UpdateProductCall(2, [price |-> 7]),
     DeleteProductCall(2),
     GetOrderByIdCall(1),
     GetOrderByIdCall(2),
     GetOrdersCall(Undefined, {1}, {1})}
    \cup {GetOrdersCall(userId, Undefined, Undefined) : userId \in {Undefined, {0}, {1}}}

OrderSeqStep(r) ==
    \/ OrderStep(r)
    \/ UpdateOrderStatus(r)
    \/ UpdateProduct(r)
    \/ DeleteProduct(r)

NextOrdersSeq ==
    \/ \E call \in OrderSeqCalls : ArriveSeq(call)
    \/ \E r \in 1..MaxReqs : OrderSeqStep(r)

SpecOrdersSeq == InitOrdersSeq /\ [][NextOrdersSeq]_vars

\* The writes of the storage, one after the other, on the same start.
AppendOnlyCalls ==
    {CheckoutCall(1),
     UpdateOrderStatusCall(1, "completed"),
     UpdateProductCall(2, [price |-> 7]),
     DeleteProductCall(2),
     UpdateProductStockCall(2, 1),
     ClearCartCall(1)}

AppendOnlyStep(r) ==
    \/ CheckoutGetCart(r)
    \/ CreateOrder(r)
    \/ CreateOrderItem(r)
    \/ CreateOrderItemFails(r)
    \/ CheckoutEnd(r)
    \/ UpdateOrderStatus(r)
    \/ UpdateProduct(r)
    \/ DeleteProduct(r)
    \/ UpdateProductStock(r)
    \/ ClearCart(r)

NextAppendOnly ==
    \/ \E call \in AppendOnlyCalls : ArriveSeq(call)
    \/ \E r \in 1..MaxReqs : AppendOnlyStep(r)

SpecAppendOnly == InitOrdersSeq /\ [][NextAppendOnly]_vars

\* C12: order items are append-only: every order item that is stored stays
\* stored with the same orderId, productId, quantity and price, whatever
\* operation runs (updateOrderStatus, updateProduct with a new price,
\* deleteProduct, updateProductStock, clearCart or a checkout).
C12_OrderItemsAppendOnly == [][\A i \in orderItems : i \in orderItems']_vars

\* Witness of C12: the status of an order has been updated and the price of
\* the product of one of its items has been changed since the item was
\* created; the item still has the price of the purchase.
C12_Witness ==
    \E i \in orderItems : \E o \in orders : \E p \in products :
        /\ o.id = i.orderId /\ o.status = "completed"
        /\ p.id = i.productId /\ p.price # i.price
        /\ i \in SeededOrderItems

OrdersSelected(r) ==
    {o \in orders : req[r].userId # Undefined => o.userId = Val(req[r].userId)}

\* C20: getOrders returns the selected orders newest first, cut by limit and
\* offset, each with exactly its own order items; with a userId supplied only
\* orders of that user are returned, with none supplied those of all users.
C20_OrdersOfTheUserOnly ==
    \A r \in 1..Len(req) :
        (IsOp(r, "getOrders") /\ Fresh(r)) =>
            /\ \A i \in 1..Len(req[r].result) :
                   /\ req[r].result[i].order \in OrdersSelected(r)
                   /\ req[r].result[i].orderItems =
                          OrderItemsOf(orderItems, products, req[r].result[i].order.id)
            /\ \A i \in 1..Len(req[r].result) : \A j \in 1..Len(req[r].result) :
                   i < j => /\ req[r].result[i].order.createdAt
                                >= req[r].result[j].order.createdAt
                            /\ req[r].result[i].order.id # req[r].result[j].order.id
            /\ Len(req[r].result)
                   = Min(req[r].limit, Max(0, Cardinality(OrdersSelected(r)) - req[r].offset))

-----------------------------------------------------------------------------
\* Storage methods of several statements under concurrent requests: addToCart,
\* getOrderById and getOrderStats next to methods of one statement.

AtomicCalls ==
    {AddToCartCall(1, 1, {1}),
     GetOrderByIdCall(1),
     GetOrderStatsCall,
     UpdateOrderStatusCall(1, "completed"),
     CreateUserCall("u3", "e3", "user"),
     GetUserCall(3)}

AtomicStep(r) ==
    \/ AddToCartSelect(r)
    \/ AddToCartWrite(r)
    \/ GetOrderByIdSelect(r)
    \/ GetOrderByIdItems(r)
    \/ GetOrderStatsOrders(r)
    \/ GetOrderStatsProducts(r)
    \/ GetOrderStatsCustomers(r)
    \/ UpdateOrderStatus(r)
    \/ CreateUser(r)
    \/ GetUser(r)

NextAtomic ==
    \/ \E call \in AtomicCalls : Arrive(call)
    \/ \E r \in 1..MaxReqs : AtomicStep(r)

SpecAtomic == InitOrdersSeq /\ [][NextAtomic]_vars

\* Request r has run a statement of its operation and has another one to run.
Midway(r) ==
    /\ r \in 1..Len(req)
    /\ req[r].pc \notin {"pending", "done", "failed"}

\* C13: an operation other than getOrders is one atomic statement: no write
\* of another request takes effect between two steps of it.
C13_OneStatementPerOperation ==
    [][\A r \in 1..MaxReqs :
           (Midway(r) /\ req[r].op # "getOrders") =>
               (req'[r] = req[r] => ver' = ver)]_vars

-----------------------------------------------------------------------------
\* Users, categories and products under creates, updates, deletes and lookups
\* that run one after the other.  One user, one category, two products and a
\* cart line are stored at the start.

AdminUsers == {UserRow(1, "u1", "e1", "user")}

AdminCategories == {CategoryRow(1, <<"a">>, Slug(1))}

AdminCart == {[id |-> 1, userId |-> 1, productId |-> 1, quantity |-> DefaultQuantity]}

InitAdmin ==
    /\ ClientInit
    /\ NoOrders
    /\ products = SeededProducts
    /\ nextProductId = 3
    /\ cartItems = AdminCart
    /\ nextCartId = 2
    /\ clock = 3
    /\ ver = 0
    /\ req = <<>>
    /\ users = AdminUsers
    /\ nextUserId = 2
    /\ categories = AdminCategories
    /\ nextCategoryId = 2

AdminCalls ==
    {CreateUserCall("u1", "e2", "user"),
     CreateUserCall("u2", "e1", "user"),
     CreateUserCall("u2", "e2", "admin"),
     CreateCategoryCall(<<"b">>, Slug(1)),
     CreateCategoryCall(<<"b">>, Slug(2)),
     CreateProductCall(<<"b">>, {1}, 0, FALSE, TRUE, Slug(1), 5),
     CreateProductCall(<<"b">>, {1}, 0, FALSE, TRUE, Slug(3), 5),
     UpdateCategoryCall(1, [name |-> <<"c">>]),
     UpdateCategoryCall(2, [name |-> <<"c">>, slug |-> Slug(3)]),
     UpdateProductCall(1, [price |-> 7, stock |-> 3]),
     UpdateProductCall(2, [slug |-> Slug(1)]),
     DeleteCategoryCall(1),
     DeleteProductCall(1),
     RemoveFromCartCall(1),
     GetUserCall(2),
     GetUserByUsernameCall("u2"),
     GetUserByEmailCall("e2"),
     GetCategoryByIdCall(1),
     GetProductByIdCall(1),
     GetProductBySlugCall(Slug(3))}

AdminStep(r) ==
    \/ CreateUser(r)
    \/ CreateCategory(r)
    \/ CreateProduct(r)
    \/ UpdateCategory(r)
    \/ UpdateProduct(r)
    \/ DeleteCategory(r)
    \/ DeleteProduct(r)
    \/ RemoveFromCart(r)
    \/ GetUser(r)
    \/ GetUserByUsername(r)
    \/ GetUserByEmail(r)
    \/ GetCategoryById(r)
    \/ GetProductById(r)
    \/ GetProductBySlug(r)

NextAdmin ==
    \/ \E call \in AdminCalls : ArriveSeq(call)
    \/ \E r \in 1..MaxReqs : AdminStep(r)

SpecAdmin == InitAdmin /\ [][NextAdmin]_vars

\* The rows of all tables.
tables == <<users, categories, products, cartItems, orders, orderItems>>

\* Request r runs its statement in this step.
Runs(r) == Pending(r) /\ req'[r] # req[r]

\* The unique key of a create is taken by a stored row.
KeyTaken(r) ==
    \/ IsOp(r, "createUser")
          /\ \E u \in users : u.username = req[r].username \/ u.email = req[r].email
    \/ IsOp(r, "createCategory") /\ \E c \in categories : c.slug = req[r].slug
    \/ IsOp(r, "createProduct") /\ \E p \in products : p.slug = req[r].slug

\* C14: createUser with a username or an email in use, and createCategory
\* and createProduct with a slug in use, fail with ConstraintViolation and
\* leave the tables unchanged; no two users share a username or an email and
\* no two categories or two products share a slug.
C14_UniqueKeys ==
    [][/\ \A r \in 1..MaxReqs :
              (Runs(r) /\ KeyTaken(r)) =>
                  /\ req'[r].pc = "failed"
                  /\ req'[r].error = "ConstraintViolation"
                  /\ tables' = tables
       /\ \A a \in users' : \A b \in users' :
              (a.username = b.username \/ a.email = b.email) => a = b
       /\ \A a \in categories' : \A b \in categories' : a.slug = b.slug => a = b
       /\ \A a \in products' : \A b \in products' : a.slug = b.slug => a = b]_vars

\* Witness of C14: a createUser, a createCategory and a createProduct have
\* each failed with ConstraintViolation.
C14_Witness ==
    \A op \in {"createUser", "createCategory", "createProduct"} :
        \E r \in 1..Len(req) :
            IsOp(r, op) /\ Failed(r) /\ req[r].error = "ConstraintViolation"

\* The rows the key of lookup r matches.
Matching(r) ==
    CASE IsOp(r, "getUser") -> {u \in users : u.id = req[r].id}
      [] IsOp(r, "getUserByUsername") -> {u \in users : u.username = req[r].username}
      [] IsOp(r, "getUserByEmail") -> {u \in users : u.email = req[r].email}
      [] IsOp(r, "getCategoryById") -> {c \in categories : c.id = req[r].id}
      [] IsOp(r, "getProductById") -> {p \in products : p.id = req[r].id}
      [] IsOp(r, "getProductBySlug") -> {p \in products : p.slug = req[r].slug}

IsLookup(r) ==
    r \in 1..Len(req)
    /\ req[r].op \in {"getUser", "getUserByUsername", "getUserByEmail", "getCategoryById",
                      "getProductById", "getProductBySlug"}

\* C15: a lookup completes without error, with the matching row when one
\* exists and with the absent value when none exists, and changes no stored
\* state.
C15_LookupRowOrAbsent ==
    [][\A r \in 1..MaxReqs :
           (Runs(r) /\ IsLookup(r)) =>
               /\ req'[r].pc = "done"
               /\ IF Matching(r) = {} THEN req'[r].result = Undefined
                  ELSE \E row \in Matching(r) : req'[r].result = Some(row)
               /\ UNCHANGED <<tables, nextUserId, nextCategoryId, nextProductId, nextCartId,
                              nextOrderId, nextOrderItemId>>]_vars

\* Witness of C15: one lookup has found a row and another one has found none.
C15_Witness ==
    /\ \E r \in 1..Len(req) : IsLookup(r) /\ Done(r) /\ req[r].result # Undefined
    /\ \E r \in 1..Len(req) : IsLookup(r) /\ Done(r) /\ req[r].result = Undefined

\* The table an update or delete writes, before and after the step.
TableOf(r) ==
    CASE req[r].op \in {"updateCategory", "deleteCategory"} -> categories
      [] req[r].op \in {"updateProduct", "deleteProduct"} -> products
      [] req[r].op = "removeFromCart" -> cartItems

TableOfAfter(r) ==
    CASE req[r].op \in {"updateCategory", "deleteCategory"} -> categories'
      [] req[r].op \in {"updateProduct", "deleteProduct"} -> products'
      [] req[r].op = "removeFromCart" -> cartItems'

\* The tables an update or delete of r has no business with.
OtherTables(r) ==
    CASE req[r].op \in {"updateCategory", "deleteCategory"} ->
             <<users, products, cartItems, orders, orderItems>>
      [] req[r].op \in {"updateProduct", "deleteProduct"} ->
             <<users, categories, cartItems, orders, orderItems>>
      [] req[r].op = "removeFromCart" ->
             <<users, categories, products, orders, orderItems>>

IsUpdate(r) == r \in 1..Len(req) /\ req[r].op \in {"updateCategory", "updateProduct"}

\* C16: an updateCategory or updateProduct that the database does not reject
\* changes exactly the supplied fields of the row with the id, leaves the
\* row's other fields and all other rows as they are and returns the updated
\* row; for an id without a row it returns the absent value and changes
\* nothing.
C16_UpdateSuppliedFieldsOnly ==
    [][\A r \in 1..MaxReqs :
           (Runs(r) /\ IsUpdate(r) /\ req'[r].pc = "done") =>
               LET old == {row \in TableOf(r) : row.id = req[r].id}
                   new == {row \in TableOfAfter(r) : row.id = req[r].id}
               IN /\ req'[r].result = new
                  /\ TableOfAfter(r) \ new = TableOf(r) \ old
                  /\ OtherTables(r)' = OtherTables(r)
                  /\ Cardinality(new) = Cardinality(old)
                  /\ \A a \in old : \A b \in new : \A f \in DOMAIN a :
                         b[f] = IF f \in DOMAIN req[r].fields THEN req[r].fields[f] ELSE a[f]]_vars

\* Witness of C16: an update of a product has changed price and stock and
\* left the name, and an update for an id without a row has returned the
\* absent value.
C16_Witness ==
    /\ \E r \in 1..Len(req) :
           /\ IsOp(r, "updateProduct") /\ Done(r) /\ req[r].result # Undefined
           /\ Val(req[r].result).price = 7 /\ Val(req[r].result).stock = 3
           /\ Val(req[r].result).name = <<"a">>
    /\ \E r \in 1..Len(req) : IsUpdate(r) /\ Done(r) /\ req[r].result = Undefined

IsDelete(r) ==
    r \in 1..Len(req) /\ req[r].op \in {"deleteCategory", "deleteProduct", "removeFromCart"}

\* C17: deleteCategory, deleteProduct and removeFromCart complete without
\* error, remove the row with the id and nothing else; with an id that has no
\* row, as in the second of two calls with one id, every table stays as it is.
C17_DeleteIdempotent ==
    [][\A r \in 1..MaxReqs :
           (Runs(r) /\ IsDelete(r)) =>
               /\ req'[r].pc = "done"
               /\ TableOfAfter(r) = {row \in TableOf(r) : row.id # req[r].id}
               /\ OtherTables(r)' = OtherTables(r)
               /\ (\A row \in TableOf(r) : row.id # req[r].id) => tables' = tables]_vars

\* Witness of C17: a delete was called twice with one id; the second call
\* found no row and completed.
C17_Witness ==
    \E r1 \in 1..Len(req) : \E r2 \in 1..Len(req) :
        /\ r1 < r2 /\ IsDelete(r1) /\ Done(r1) /\ Done(r2)
        /\ req[r2].op = req[r1].op /\ req[r2].id = req[r1].id

-----------------------------------------------------------------------------
\* C18: updateCartItem(id, q) sets the quantity of the line with the id to q,
\* whatever integer q is, leaves the line's userId and productId and all
\* other lines and tables as they are and returns the line; for an id
\* without a line it returns the absent value and changes nothing.
C18_UpdateCartItemSetsQuantity ==
    [][\A r \in 1..MaxReqs :
           (Runs(r) /\ IsOp(r, "updateCartItem")) =>
               LET old == {row \in cartItems : row.id = req[r].id}
                   new == {row \in cartItems' : row.id = req[r].id}
               IN /\ req'[r].pc = "done"
                  /\ req'[r].result = new
                  /\ new = {[row EXCEPT !.quantity = req[r].quantity] : row \in old}
                  /\ cartItems' \ new = cartItems \ old
                  /\ <<users, categories, products, orders, orderItems>>'
                         = <<users, categories, products, orders, orderItems>>]_vars

\* Witness of C18: an updateCartItem has set a line's quantity to 0 or below,
\* and one for an id without a line has returned the absent value.
C18_Witness ==
    /\ \E r \in 1..Len(req) :
           /\ IsOp(r, "updateCartItem") /\ Fresh(r) /\ req[r].result # Undefined
           /\ req[r].quantity <= 0
           /\ \E row \in cartItems : row.id = req[r].id /\ row.quantity = req[r].quantity
    /\ \E r \in 1..Len(req) :
           IsOp(r, "updateCartItem") /\ Done(r) /\ req[r].result = Undefined

-----------------------------------------------------------------------------
\* The quantity a caller of addToCart asks for: the quantity it passes, or
\* one when it passes none.
Requested(r) == IF req[r].quantity = Undefined THEN 1 ELSE Val(req[r].quantity)

\* C27: when the pair of an addToCart has a line, the call increases the
\* line's quantity by exactly the requested quantity (0 included, 1 when the
\* quantity is omitted); when the pair has no line, the call inserts a line
\* with the requested quantity.  Calls run one after the other.
C27_AddIncreasesByRequested ==
    [][\A r \in 1..MaxReqs :
           (r \in 1..Len(req) /\ IsOp(r, "addToCart") /\ req[r].pc = "write" /\ Done(r)') =>
               LET before == CartLines(cartItems, req[r].userId, req[r].productId)
                   after == CartLines(cartItems', req[r].userId, req[r].productId)
               IN IF before = {}
                  THEN \E row \in after :
                          /\ after = {row}
                          /\ row.quantity = Requested(r)
                  ELSE \A old \in before : \E row \in after :
                          /\ row.id = old.id
                          /\ row.quantity = old.quantity + Requested(r)]_vars

-----------------------------------------------------------------------------
\* The carts of two users under concurrent addToCart and clearCart, with
\* products, an order and its item stored.

FrameCalls ==
    {AddToCartCall(u, 1, {1}) : u \in CartUsers}
    \cup {ClearCartCall(u) : u \in CartUsers}

FrameStep(r) ==
    \/ AddToCartSelect(r)
    \/ AddToCartWrite(r)
    \/ ClearCart(r)

NextFrame ==
    \/ \E call \in FrameCalls : Arrive(call)
    \/ \E r \in 1..MaxReqs : FrameStep(r)

SpecFrame == InitOrdersSeq /\ [][NextFrame]_vars

\* The cart rows of the users other than userId.
LinesOfOthers(table, userId) == {row \in table : row.userId # userId}

\* C28: a step of addToCart or of clearCart changes cart rows of the acting
\* user only: the cart rows of every other user, and the products, orders and
\* order items, are the same after the step.
C28_OwnCartRowsOnly ==
    [][\A r \in 1..Len(req) :
           (req[r].op \in {"addToCart", "clearCart"} /\ req'[r] # req[r]) =>
               /\ LinesOfOthers(cartItems', req[r].userId)
                      = LinesOfOthers(cartItems, req[r].userId)
               /\ products' = products
               /\ orders' = orders
               /\ orderItems' = orderItems]_vars

\* Witness of C28: user 1 has cleared the cart while user 2 had a line, user 1
\* has added a product since, and user 2 still has the line; products, an
\* order and an order item are stored.
C28_Witness ==
    /\ \E c \in 1..Len(req) : \E a \in 1..Len(req) :
           /\ IsOp(c, "clearCart") /\ Done(c) /\ req[c].userId = 1
           /\ IsOp(a, "addToCart") /\ Done(a) /\ req[a].userId = 1
           /\ req[c].at < req[a].at
           /\ \E b \in 1..Len(req) :
                  /\ IsOp(b, "addToCart") /\ Done(b) /\ req[b].userId = 2
                  /\ req[b].at < req[c].at
                  /\ req[b].result \subseteq cartItems
    /\ UserLines(cartItems, 1) # {}
    /\ products # {} /\ orders # {} /\ orderItems # {}

-----------------------------------------------------------------------------
\* The back office when the calls run one after the other: no order is
\* stored at the start, user 1 has both products in the cart, and a user and
\* an admin are registered.

InitStats ==
    /\ ClientInit
    /\ products = SeededProducts
    /\ nextProductId = 3
    /\ cartItems = ClientCart
    /\ nextCartId = 3
    /\ clock = 3
    /\ ver = 0
    /\ req = <<>>
    /\ users = SeededUsers
    /\ nextUserId = 3
    /\ categories = {}
    /\ nextCategoryId = 1
    /\ NoOrders

StatsStatuses == {"pending", "cancelled", "refunded"}

StatsCalls ==
    {GetOrderStatsCall,
     CheckoutCall(1),
     CreateProductCall(<<"c">>, {1}, 1, FALSE, FALSE, Slug(3), 5),
     UpdateProductCall(1, [isActive |-> FALSE]),
     CreateUserCall("u3", "e3", "user"),
     CreateUserCall("u4", "e4", "admin")}
    \cup {GetProductsCall(Undefined, Undefined, Undefined, Undefined)}
    \cup {UpdateOrderStatusCall(1, s) : s \in StatsStatuses}

StatsStep(r) ==
    \/ GetOrderStatsOrders(r)
    \/ GetOrderStatsProducts(r)
    \/ GetOrderStatsCustomers(r)
    \/ CheckoutGetCart(r)
    \/ CreateOrder(r)
    \/ CreateOrderItem(r)
    \/ CreateOrderItemFails(r)
    \/ CheckoutEnd(r)
    \/ CreateProduct(r)
    \/ UpdateProduct(r)
    \/ CreateUser(r)
    \/ GetProducts(r)
    \/ UpdateOrderStatus(r)

NextStats ==
    \/ \E call \in StatsCalls : ArriveSeq(call)
    \/ \E r \in 1..MaxReqs : StatsStep(r)

SpecStats == InitStats /\ [][NextStats]_vars

\* C22: updateOrderStatus(id, s) on a stored order writes s as its status
\* whatever s and the current status are, leaves the order's other fields,
\* the other orders and the order items as they were, and returns the
\* updated row; with no order of the id it returns the absent value and
\* changes nothing.
C22_AnyStatusAnyTransition ==
    [][\A r \in 1..Len(req) :
           (Pending(r) /\ IsOp(r, "updateOrderStatus") /\ req'[r] # req[r]) =>
               /\ Done(r)'
               /\ orderItems' = orderItems
               /\ IF \E o \in orders : o.id = req[r].id
                  THEN \E o \in orders :
                          /\ o.id = req[r].id
                          /\ orders' = (orders \ {o})
                                          \cup {[o EXCEPT !.status = req[r].status]}
                          /\ req'[r].result = {[o EXCEPT !.status = req[r].status]}
                  ELSE /\ orders' = orders
                       /\ req'[r].result = Undefined]_vars

\* Witness of C22: an order was set to cancelled and then back to pending;
\* its total is the one it had.
C22_Witness ==
    \E r1 \in 1..Len(req) : \E r2 \in 1..Len(req) :
        /\ r1 < r2
        /\ IsOp(r1, "updateOrderStatus") /\ Done(r1) /\ req[r1].status = "cancelled"
        /\ req[r1].result # Undefined
        /\ IsOp(r2, "updateOrderStatus") /\ Done(r2) /\ req[r2].status = "pending"
        /\ req[r2].id = req[r1].id
        /\ req[r2].result \subseteq orders
        /\ Val(req[r2].result).status = "pending"
        /\ Val(req[r2].result).total = Val(req[r1].result).total

\* C23: with no order stored, getOrderStats returns totalOrders = 0 and
\* totalRevenue = "0" (the string, not null), and it does not fail.
C23_StatsOfNoOrders ==
    \A r \in 1..Len(req) :
        IsOp(r, "getOrderStats") =>
            /\ ~Failed(r)
            /\ (Fresh(r) /\ orders = {}) =>
                   /\ req[r].result # Undefined
                   /\ Val(req[r].result).totalOrders = 0
                   /\ Val(req[r].result).totalRevenue = Some(<<"0">>)

\* Witness of C23: getOrderStats has returned while no order was stored.
C23_Witness ==
    \E r \in 1..Len(req) :
        /\ IsOp(r, "getOrderStats") /\ Fresh(r) /\ orders = {}
        /\ Val(req[r].result).totalRevenue = Some(<<"0">>)

\* C24: with no write since it ran, the result of getOrderStats has
\* totalOrders = the number of orders, totalProducts = the number of product
\* rows, inactive ones included, and totalCustomers = the number of users
\* whose role is "user".
C24_StatsCounts ==
    \A r \in 1..Len(req) :
        (IsOp(r, "getOrderStats") /\ Fresh(r)) =>
            /\ Val(req[r].result).totalOrders = Cardinality(orders)
            /\ Val(req[r].result).totalProducts = Cardinality(products)
            /\ Val(req[r].result).totalCustomers
                   = Cardinality({u \in users : u.role = "user"})

\* Witness of C24: the statistics count an inactive product, which a
\* getProducts of the same state does not list, and an order, and they leave
\* out an admin.
C24_Witness ==
    \E r \in 1..Len(req) : \E g \in 1..Len(req) :
        /\ IsOp(r, "getOrderStats") /\ Fresh(r)
        /\ IsOp(g, "getProducts") /\ Fresh(g)
        /\ \E p \in products : ~p.isActive /\ \A i \in 1..Len(req[g].result) : req[g].result[i] # p
        /\ Val(req[r].result).totalProducts = Len(req[g].result) + 1
        /\ \E u \in users : u.role = "admin"
        /\ Val(req[r].result).totalCustomers = Cardinality(users) - 1

-----------------------------------------------------------------------------
\* Listings of orders under concurrent requests, with statements that can
\* fail: two orders of two users are stored.

ListingOrders == SeededOrders \cup {OrderRow(2, 1, 10, "pending", 4)}

ListingOrderItems == SeededOrderItems \cup {OrderItemRow(2, 2, 1, 2, 5)}

InitListing ==
    /\ ClientInit
    /\ products = SeededProducts
    /\ nextProductId = 3
    /\ cartItems = {}
    /\ nextCartId = 1
    /\ clock = 4
    /\ ver = 0
    /\ req = <<>>
    /\ users = SeededUsers
    /\ nextUserId = 3
    /\ categories = {}
    /\ nextCategoryId = 1
    /\ orders = ListingOrders
    /\ nextOrderId = 3
    /\ orderItems = ListingOrderItems
    /\ nextOrderItemId = 3

ListingCalls ==
    {GetOrdersCall(userId, limit, Undefined) : userId \in {Undefined, {1}},
                                               limit \in {Undefined, {1}}}
    \cup {UpdateOrderStatusCall(1, "completed")}
    \cup {DeleteProductCall(1)}

ListingStep(r) ==
    \/ GetOrdersSelect(r)
    \/ GetOrdersItems(r)
    \/ GetOrdersItemsFails(r)
    \/ UpdateOrderStatus(r)
    \/ DeleteProduct(r)

NextListing ==
    \/ \E call \in ListingCalls : Arrive(call)
    \/ \E r \in 1..MaxReqs : ListingStep(r)

SpecListing == InitListing /\ [][NextListing]_vars

\* C21: getOrders is fail-fast: once the item fetch of one listed order has
\* failed the call has failed and has returned no order, and a call that
\* returns orders has fetched the items of every order of its page.
C21_ListingFailsAsAWhole ==
    \A r \in 1..Len(req) :
        IsOp(r, "getOrders") =>
            /\ req[r].rejected # {} => (Failed(r) /\ req[r].result = <<>>)
            /\ Failed(r) => req[r].result = <<>>
            /\ Done(r) => /\ req[r].rejected = {}
                          /\ req[r].fetched = 1..Len(req[r].list)
                          /\ Len(req[r].result) = Len(req[r].list)

\* Witness of C21: a getOrders over two orders has failed on the items of one
\* order after it had fetched the items of the other.
C21_Witness ==
    \E r \in 1..Len(req) :
        /\ IsOp(r, "getOrders") /\ Failed(r)
        /\ Len(req[r].list) = 2
        /\ req[r].fetched # {} /\ req[r].rejected # {}
        /\ req[r].result = <<>>

-----------------------------------------------------------------------------
\* The admin page of the client.  useAuth() gives the session's user and
\* isLoading; users register while the page is shown.

\* AdminPage without the test of the role.
AdminPageOfAnyUser(user, isLoading) ==
    IF isLoading THEN "spinner"
    ELSE IF user = Undefined THEN "redirect"
    ELSE "panel"

\* AdminPage: what the component returns for a state of useAuth(): the
\* spinner, <Redirect to="/auth" />, Access Denied or <AdminPanel />.
AdminPage(user, isLoading) ==
    IF isLoading THEN "spinner"
    ELSE IF user = Undefined THEN "redirect"
    ELSE IF Val(user).role # "admin" THEN "denied"
    ELSE "panel"

\* useAuth() changes and AdminPage renders again: the auth query starts
\* loading or stops, with no user (not logged in, logged out) or with one of
\* the registered users (session found, logged in).
AuthChanges ==
    /\ \E user \in {Undefined} \cup {Some(u) : u \in users} : \E isLoading \in BOOLEAN :
           /\ auth' = [user |-> user, isLoading |-> isLoading]
           /\ auth' # auth
           /\ adminView' = AdminPage(user, isLoading)
    /\ UNCHANGED <<products, nextProductId, cartItems, nextCartId, clock, ver, req,
                   cache, clearSnap, clearTodo, clientPc, productPage, checkout, inflight,
                   accounts, orderTables>>

AdminPageRoles == {"user", "admin", "staff"}

AdminPageCalls == {CreateUserCall("u3", "e3", role) : role \in AdminPageRoles}

NextAdminPage ==
    \/ \E call \in AdminPageCalls : Arrive(call)
    \/ \E r \in 1..MaxReqs : CreateUser(r)
    \/ AuthChanges

SpecAdminPage == InitStats /\ [][NextAdminPage]_vars

\* C25: AdminPage shows the AdminPanel exactly when auth is not loading and
\* the user exists with role "admin"; it shows the spinner while auth is
\* loading, redirects to /auth with no user, and shows Access Denied for a
\* user of any other role.
C25_AdminPanelForAdminsOnly ==
    /\ adminView = "panel" <=>
           (~auth.isLoading /\ auth.user # Undefined /\ Val(auth.user).role = "admin")
    /\ auth.isLoading => adminView = "spinner"
    /\ (~auth.isLoading /\ auth.user = Undefined) => adminView = "redirect"
    /\ (~auth.isLoading /\ auth.user # Undefined /\ Val(auth.user).role # "admin") =>
           adminView = "denied"

\* Witness of C25: a registered user whose role is neither "admin" nor "user"
\* is logged in, auth has loaded, and the page shows Access Denied.
C25_Witness ==
    /\ ~auth.isLoading /\ auth.user # Undefined
    /\ Val(auth.user).role \notin {"admin", "user"}
    /\ adminView = "denied"
    /\ \E u \in users : u.role = "admin"

-----------------------------------------------------------------------------
\* The cart context of the client (CartProvider) with its three mutations.
\* The user is logged in; the requests of the mutations are served by the
\* storage methods the routes call.

database == <<products, nextProductId, cartItems, nextCartId, clock, ver, accounts,
              orderTables>>

cartContext == <<cache, clearSnap, clearTodo, clientPc>>

\* useAuth() of a logged-in user.
LoggedIn(u) == [user |-> Some(u), isLoading |-> FALSE]

\* The quantity the cart context shows for a product: over the cartItems of
\* the query, as itemCount sums them.
ShownQuantity(productId) ==
    SumQuantity({e.item : e \in {x \in cache : x.item.productId = productId}})

\* POST /api/cart { productId, quantity }: the route calls addToCart for the
\* session's user.
ApiPostCart(userId, productId, quantity) == AddToCartCall(userId, productId, Some(quantity))

\* PUT /api/cart/:id { quantity }: the route calls updateCartItem.
ApiPutCartItem(id, quantity) == UpdateCartItemCall(id, quantity)

\* mutateAsync: the request of a mutation is sent; change says what the
\* mutation is to do to the cart shown.
MutateAsync(call, change) ==
    /\ Len(req) < MaxReqs
    /\ req' = Append(req, call)
    /\ inflight' = inflight \cup {[r |-> Len(req) + 1] @@ change}
    /\ UNCHANGED <<database, cartContext, auth, adminView, productPage, checkout>>

\* CartProvider.addToCart(productId, quantity) of a logged-in user: the
\* mutation posts the line; nothing else happens before its response.
CartAddToCart(productId, quantity) ==
    /\ auth.user # Undefined
    /\ MutateAsync(ApiPostCart(Val(auth.user).id, productId, quantity),
                   [kind |-> "add", productId |-> productId, quantity |-> quantity,
                    shown |-> ShownQuantity(productId)])

\* CartProvider.updateQuantity(id, quantity).
CartUpdateQuantity(id, quantity) ==
    MutateAsync(ApiPutCartItem(id, quantity),
                [kind |-> "update", id |-> id, quantity |-> quantity])

\* CartProvider.removeFromCart(id).
CartRemoveFromCart(id) ==
    MutateAsync(RemoveFromCartCall(id), [kind |-> "remove", id |-> id])

\* The response of a mutation arrives: onSuccess invalidates the query
\* ["/api/cart"], which is then fetched again (ClientFetch); onError shows a
\* toast.
CartMutationSettles ==
    /\ \E mutation \in inflight :
           /\ Done(mutation.r) \/ Failed(mutation.r)
           /\ inflight' = inflight \ {mutation}
    /\ UNCHANGED <<database, req, cartContext, auth, adminView, productPage, checkout>>

InitCartContext ==
    /\ products = SeededProducts
    /\ nextProductId = 3
    /\ cartItems = ClientCart
    /\ nextCartId = 3
    /\ clock = 3
    /\ ver = 2
    /\ req = <<>>
    /\ cache = GetCartItemsResult(ClientCart, SeededProducts, ClientUser)
    /\ clearSnap = {}
    /\ clearTodo = {}
    /\ clientPc = "idle"
    /\ auth = LoggedIn(UserRow(ClientUser, "u1", "e1", "user"))
    /\ adminView = "denied"
    /\ productPage = [product |-> Undefined, quantity |-> 1]
    /\ checkout = [isOpen |-> FALSE, step |-> 1, status |-> "idle"]
    /\ inflight = {}
    /\ users = SeededUsers
    /\ nextUserId = 3
    /\ categories = {}
    /\ nextCategoryId = 1
    /\ NoOrders

CartContextStep(r) ==
    \/ AddToCartSelect(r)
    \/ AddToCartWrite(r)
    \/ UpdateCartItem(r)
    \/ RemoveFromCart(r)

NextCartContext ==
    \/ \E productId \in CartProducts : \E quantity \in {1, 2} :
           CartAddToCart(productId, quantity)
    \/ \E e \in cache : CartUpdateQuantity(e.item.id, 3)
    \/ \E e \in cache : CartRemoveFromCart(e.item.id)
    \/ \E r \in 1..MaxReqs : CartContextStep(r)
    \/ CartMutationSettles
    \/ ClientFetch

SpecCartContext == InitCartContext /\ [][NextCartContext]_vars

\* The cartItems of the context show what the mutation is to do.
Reflected(mutation) ==
    CASE mutation.kind = "add" ->
             ShownQuantity(mutation.productId) = mutation.shown + mutation.quantity
      [] mutation.kind = "update" ->
             \A e \in cache : e.item.id = mutation.id => e.item.quantity = mutation.quantity
      [] mutation.kind = "remove" ->
             \A e \in cache : e.item.id # mutation.id

\* C26: cart updates are optimistic: while the response of an addToCart,
\* updateQuantity or removeFromCart of the cart context has not arrived, the
\* cartItems (and so itemCount) of the context already show the change.
C26_OptimisticCart ==
    \A mutation \in inflight :
        (~Done(mutation.r) /\ ~Failed(mutation.r)) => Reflected(mutation)

-----------------------------------------------------------------------------
\* The product page of the client, showing product 1 to the logged-in user,
\* while other sessions buy the product.

PageProductId == 1

\* useQuery(["/api/products", id]) is fetched, or fetched again: the page has
\* the product as the server holds it now (no product after a 404).
ProductPageFetch ==
    /\ productPage' = [productPage EXCEPT
                          !.product = {p \in products : p.id = PageProductId}]
    /\ productPage' # productPage
    /\ UNCHANGED <<database, req, cartContext, auth, adminView, checkout, inflight>>

\* The quantity selector is rendered when the product is in stock.
SelectorShown ==
    /\ productPage.product # Undefined
    /\ Val(productPage.product).stock > 0

\* The plus button: disabled when quantity >= product.stock, otherwise
\* setQuantity(Math.min(product.stock, quantity + 1)).
ProductPagePlus ==
    /\ SelectorShown
    /\ ~(productPage.quantity >= Val(productPage.product).stock)
    /\ productPage' = [productPage EXCEPT
                          !.quantity = Min(Val(productPage.product).stock,
                                           productPage.quantity + 1)]
    /\ UNCHANGED <<database, req, cartContext, auth, adminView, checkout, inflight>>

\* The minus button: disabled when quantity <= 1, otherwise
\* setQuantity(Math.max(1, quantity - 1)).
ProductPageMinus ==
    /\ SelectorShown
    /\ ~(productPage.quantity <= 1)
    /\ productPage' = [productPage EXCEPT !.quantity = Max(1, productPage.quantity - 1)]
    /\ UNCHANGED <<database, req, cartContext, auth, adminView, checkout, inflight>>

\* handleAddToCart of a logged-in user: addToCart(product.id, quantity).
ProductPageAddToCart ==
    /\ SelectorShown
    /\ CartAddToCart(Val(productPage.product).id, productPage.quantity)

\* handleBuyNow of a logged-in user: addToCart(product.id, quantity), then
\* setCheckoutOpen(true) once the mutation has resolved.
ProductPageBuyNow ==
    /\ SelectorShown
    /\ auth.user # Undefined
    /\ Len(req) < MaxReqs
    /\ req' = Append(req, ApiPostCart(Val(auth.user).id, Val(productPage.product).id,
                                      productPage.quantity))
    /\ inflight' = inflight \cup
           {[r |-> Len(req) + 1, kind |-> "buy", productId |-> Val(productPage.product).id,
             quantity |-> productPage.quantity,
             shown |-> ShownQuantity(Val(productPage.product).id)]}
    /\ UNCHANGED <<database, cartContext, auth, adminView, productPage, checkout>>

\* The addToCart of handleBuyNow has resolved: setCheckoutOpen(true).
ProductPageBuyNowOpens ==
    /\ \E mutation \in inflight :
           /\ mutation.kind = "buy"
           /\ Done(mutation.r)
           /\ inflight' = inflight \ {mutation}
    /\ checkout' = [checkout EXCEPT !.isOpen = TRUE]
    /\ UNCHANGED <<database, req, cartContext, auth, adminView, productPage>>

ProductPageCalls == {UpdateProductStockCall(PageProductId, q) : q \in {1, 2}}

ProductPageStep(r) ==
    \/ UpdateProductStock(r)
    \/ AddToCartSelect(r)
    \/ AddToCartWrite(r)

NextProductPage ==
    \/ ProductPageFetch
    \/ ProductPagePlus
    \/ ProductPageMinus
    \/ ProductPageAddToCart
    \/ ProductPageBuyNow
    \/ ProductPageBuyNowOpens
    \/ CartMutationSettles
    \/ \E call \in ProductPageCalls : Arrive(call)
    \/ \E r \in 1..MaxReqs : ProductPageStep(r)

\* Stock of the product of the page at the start.
PageStock == 3

InitProductPage ==
    /\ products = {ProductRow(PageProductId, <<"a">>, {1}, PageStock, FALSE, TRUE, 1, Slug(1), 5)}
    /\ nextProductId = 2
    /\ cartItems = {}
    /\ nextCartId = 1
    /\ clock = 1
    /\ ver = 0
    /\ req = <<>>
    /\ cache = {}
    /\ clearSnap = {}
    /\ clearTodo = {}
    /\ clientPc = "idle"
    /\ auth = LoggedIn(UserRow(ClientUser, "u1", "e1", "user"))
    /\ adminView = "denied"
    /\ productPage = [product |-> Undefined, quantity |-> 1]
    /\ checkout = [isOpen |-> FALSE, step |-> 1, status |-> "idle"]
    /\ inflight = {}
    /\ users = SeededUsers
    /\ nextUserId = 3
    /\ categories = {}
    /\ nextCategoryId = 1
    /\ NoOrders

SpecProductPage == InitProductPage /\ [][NextProductPage]_vars

\* C30: while the product shown is in stock the selected quantity is between
\* 1 and the stock shown, whatever plus and minus clicks and refetches have
\* happened; Add to Cart and Buy Now pass the selected quantity, which is
\* therefore at most the stock shown.
C30_QuantityWithinStock ==
    SelectorShown =>
        /\ 1 <= productPage.quantity
        /\ productPage.quantity <= Val(productPage.product).stock

-----------------------------------------------------------------------------
\* The checkout modal of the client.  The user is logged in with a line in
\* the cart; POST /api/orders is served by the checkout of the storage.

\* The modal is opened by its parent (isOpen becomes true).
CheckoutModalOpen ==
    /\ ~checkout.isOpen
    /\ checkout' = [checkout EXCEPT !.isOpen = TRUE]
    /\ UNCHANGED <<database, req, cartContext, auth, adminView, productPage, inflight>>

\* Cancel, the X button or the dialog's onOpenChange: onClose().
CheckoutModalClose ==
    /\ checkout.isOpen
    /\ checkout' = [checkout EXCEPT !.isOpen = FALSE]
    /\ UNCHANGED <<database, req, cartContext, auth, adminView, productPage, inflight>>

\* The request of createOrderMutation: POST /api/orders.
PostOrder ==
    /\ auth.user # Undefined
    /\ Len(req) < MaxReqs
    /\ req' = Append(req, CheckoutCall(Val(auth.user).id))
    /\ inflight' = inflight \cup {[r |-> Len(req) + 1, kind |-> "order"]}
    /\ checkout' = [checkout EXCEPT !.status = "pending"]
    /\ UNCHANGED <<database, cartContext, auth, adminView, productPage>>

\* The form is submitted whether or not a request is pending.
CheckoutSubmitWhilePending ==
    /\ checkout.isOpen
    /\ PostOrder

\* The form is submitted with Place Order, which is disabled while
\* createOrderMutation.isPending: onSubmit calls createOrderMutation.mutate.
CheckoutSubmit ==
    /\ checkout.isOpen
    /\ checkout.status # "pending"
    /\ PostOrder

\* The response of POST /api/orders is the order: onSuccess calls
\* clearCart(), which starts its loop over the cartItems shown, then
\* onClose() and setStep(1).
CheckoutOrderSucceeds ==
    /\ \E mutation \in inflight :
           /\ mutation.kind = "order"
           /\ Done(mutation.r)
           /\ inflight' = inflight \ {mutation}
    /\ clientPc' = "clearing"
    /\ clearSnap' = {e.item.id : e \in cache}
    /\ clearTodo' = clearTodo \cup {e.item.id : e \in cache}
    /\ checkout' = [isOpen |-> FALSE, step |-> 1, status |-> "success"]
    /\ UNCHANGED <<database, req, cache, auth, adminView, productPage>>

\* The request has failed: onError shows a toast.
CheckoutOrderFails ==
    /\ \E mutation \in inflight :
           /\ mutation.kind = "order"
           /\ Failed(mutation.r)
           /\ inflight' = inflight \ {mutation}
    /\ checkout' = [checkout EXCEPT !.status = "error"]
    /\ UNCHANGED <<database, req, cartContext, auth, adminView, productPage>>

CheckoutModalStep(r) ==
    \/ CheckoutGetCart(r)
    \/ CreateOrder(r)
    \/ CreateOrderItem(r)
    \/ CreateOrderItemFails(r)
    \/ CheckoutEnd(r)

NextCheckoutModal ==
    \/ CheckoutModalOpen
    \/ CheckoutModalClose
    \/ CheckoutSubmit
    \/ CheckoutOrderSucceeds
    \/ CheckoutOrderFails
    \/ \E r \in 1..MaxReqs : CheckoutModalStep(r)
    \/ ClientClearStep
    \/ ClientClearEnd
    \/ ClientFetch

\* The cart of the user of the modal: one line, of product 1.
ModalCart ==
    {[id |-> 1, userId |-> ClientUser, productId |-> 1, quantity |-> DefaultQuantity]}

InitCheckoutModal ==
    /\ products = SeededProducts
    /\ nextProductId = 3
    /\ cartItems = ModalCart
    /\ nextCartId = 2
    /\ clock = 3
    /\ ver = 1
    /\ req = <<>>
    /\ cache = GetCartItemsResult(ModalCart, SeededProducts, ClientUser)
    /\ clearSnap = {}
    /\ clearTodo = {}
    /\ clientPc = "idle"
    /\ auth = LoggedIn(UserRow(ClientUser, "u1", "e1", "user"))
    /\ adminView = "denied"
    /\ productPage = [product |-> Undefined, quantity |-> 1]
    /\ checkout = [isOpen |-> FALSE, step |-> 1, status |-> "idle"]
    /\ inflight = {}
    /\ users = SeededUsers
    /\ nextUserId = 3
    /\ categories = {}
    /\ nextCategoryId = 1
    /\ NoOrders

SpecCheckoutModal == InitCheckoutModal /\ [][NextCheckoutModal]_vars

\* The order requests of the modal whose response has not arrived.
OrdersInFlight == {mutation \in inflight : mutation.kind = "order"}

\* C29: the modal has at most one order request in flight: a request is
\* pending exactly while Place Order is disabled, and a submission starts
\* only with none pending.  When the request fails, no clearCart is issued
\* and the modal is not closed; when it succeeds, clearCart is issued, the
\* modal is closed and the step is 1.
C29_OneOrderRequestAtATime ==
    [][/\ Cardinality(OrdersInFlight') <= 1
       /\ (checkout'.status = "pending") <=> (OrdersInFlight' # {})
       /\ (OrdersInFlight' \ OrdersInFlight # {}) => OrdersInFlight = {}
       /\ (checkout.status = "pending" /\ checkout'.status = "error") =>
              /\ UNCHANGED cartContext
              /\ checkout'.isOpen = checkout.isOpen
       /\ (checkout.status = "pending" /\ checkout'.status = "success") =>
              /\ clientPc' = "clearing"
              /\ clearSnap' = {e.item.id : e \in cache}
              /\ ~checkout'.isOpen
              /\ checkout'.step = 1]_vars

\* Witness of C29: an order request of the modal has failed, the modal is
\* still open and no clearCart was issued, and a second order request,
\* submitted after the failure, is in flight.
C29_Witness ==
    /\ checkout.isOpen /\ checkout.status = "pending"
    /\ clientPc = "idle"
    /\ \E r1 \in 1..Len(req) : \E mutation \in OrdersInFlight :
           /\ IsOp(r1, "checkout") /\ Failed(r1)
           /\ r1 < mutation.r

====
